---- MODULE Spec2Model ----
(***************************************************************************)
(* A model of the rule engine of half_earth: the event pool                *)
(* (src/engine/src/events.rs) and the effect engine                        *)
(* (src/hes-engine/src/events/effects.rs).                                 *)
(***************************************************************************)
EXTENDS Integers, Sequences, FiniteSets, TLC

(***************************************************************************)
(* Bounds of the model.                                                    *)
(***************************************************************************)
\* largest countdown given to add_event
MaxQueue == 2
\* add_event calls in one behaviour of SpecPool
MaxAdds == 2
\* roll calls in one behaviour
MaxRolls == 2
\* effects applied and not yet unapplied
MaxDepth == 2
\* apply calls in one behaviour
MaxApplies == 2
\* build calls on one project
MaxBuilds == 4
\* update_cost and update_required_majority calls on one project
MaxUpdates == 1

\* outcomes of a project
\* the builds of one project from its start to its estimate
MaxYears == 12

MaxOutcomes == 3

(***************************************************************************)
(* Event pool: src/engine/src/events.rs                                    *)
(***************************************************************************)
MAX_EVENTS_PER_TURN == 5

\* rng.gen::<f32>() returns k / 2^24 for a k in 0 .. 2^24 - 1; draws and
\* probabilities are held as multiples of 2^-24.
DrawScale == 2 ^ 24
ProbZero == 0 * DrawScale
ProbOne == 1 * DrawScale
Probs == {ProbZero, ProbOne}
\* the least and the greatest value the generator returns
Draws == {0, DrawScale - 1}

\* usize::MAX, the result of a wrapped decrement of 0 (64-bit target,
\* held symbolically: no countdown of the model comes near it)
UsizeWrapped == -1

Random == [kind |-> "Random", n |-> 0]
Triggered == [kind |-> "Triggered", n |-> 0]
Queued(i) == [kind |-> "Queued", n |-> i]
Status == {Random, Triggered} \cup {Queued(i) : i \in 0..MaxQueue}

\* an Event: the fields roll reads, and the locked flag; Event is unlocked
Gated(id, repeats, prob, locked) ==
    [id |-> id, repeats |-> repeats, prob |-> prob, locked |-> locked]
Event(id, repeats, prob) == Gated(id, repeats, prob, FALSE)

VARIABLES
    events,     \* EventPool.events: Seq of [ev, status]
    happening,  \* ids of the events the last roll returned, in order
    rolls,      \* number of rolls made
    added,      \* history: per add_event call, the status given and the roll count then
    fired,      \* history: per added event, the rolls (by number) that returned it
    underflow,  \* a roll decremented a countdown that was 0
    state,      \* the State the effects are applied to
    stack,      \* the effects applied and not yet unapplied, oldest first
    applies,    \* number of apply calls made
    last,       \* history: the last apply or unapply and the state it is compared with
    call,       \* the last call of a function of an Effect: its arguments and its result
    project,    \* a Project
    pcall,      \* history: the last call on the project, its result and the project before it
    builds,     \* number of build calls on the project
    updates     \* number of update_cost and update_required_majority calls

poolVars == <<events, happening, rolls, added, fired, underflow>>
effVars == <<state, stack, applies, last>>
projVars == <<project, pcall, builds, updates>>
vars == <<events, happening, rolls, added, fired, underflow, state, stack, applies, last,
          call, project, pcall, builds, updates>>

Range(s) == {s[i] : i \in DOMAIN s}

\* a cleanup that forgets the expired countdowns
ExpiredTriggeredOnly(p) == p.status = Triggered /\ ~p.ev.repeats

\* a cleanup that forgets the one-off events that fired
ExpiredQueuedOnly(p) == p.status = Queued(0)

\* events.retain(..): drop Queued(0) and non-repeating Triggered entries
Expired(p) == p.status = Queued(0) \/ (p.status = Triggered /\ ~p.ev.repeats)

\* a roll without the cleanup
RetainAll(evs) == evs

Retain(evs) == SelectSeq(evs, LAMBDA p : ~Expired(p))

\* events.shuffle(rng): any permutation of the retained entries
Shuffle(evs, perm) == [i \in 1..Len(evs) |-> evs[perm[i]]]

\* a countdown that stands still
DecrementStuck(i) == i

\* *i -= 1 on a usize
Decrement(i) == IF i = 0 THEN UsizeWrapped ELSE i - 1

\* a cap that is off by one
UnderCapLoose(hap) == Len(hap) <= MAX_EVENTS_PER_TURN

\* a cap that closes one event early
UnderCapTight(hap) == Len(hap) < MAX_EVENTS_PER_TURN - 1

\* if happening.len() < MAX_EVENTS_PER_TURN
UnderCap(hap) == Len(hap) < MAX_EVENTS_PER_TURN

\* if rng.gen::<f32>() <= prob
Fires(draw, prob) == draw <= prob

\* a countdown that reaches zero without a firing
ScanQueuedSilent(p, hap) ==
    [entry |-> [p EXCEPT !.status = Queued(Decrement(p.status.n))],
     hap |-> hap,
     used |-> 0,
     under |-> p.status.n = 0]

\* the Queued arm of the scan: counts down always, fires at zero whatever
\* the length of the firing list
ScanQueued(p, hap) ==
    LET n1 == Decrement(p.status.n)
    IN  [entry |-> [p EXCEPT !.status = Queued(n1)],
         hap |-> IF n1 = 0 THEN Append(hap, p.ev.id) ELSE hap,
         used |-> 0,
         under |-> p.status.n = 0]

\* if ev.repeats { *status = Status::Random; }
ResetStatus(p) == IF p.ev.repeats THEN Random ELSE p.status

\* a scan that resets a repeating event only while the cap is open
ScanRandomResetUnderCap(p, hap, draw) ==
    LET eval == UnderCap(hap)
        hit == eval /\ Fires(draw, p.ev.prob)
    IN  [entry |-> [p EXCEPT !.status = IF hit THEN Triggered
                                       ELSE IF eval THEN ResetStatus(p)
                                       ELSE p.status],
         hap |-> IF hit THEN Append(hap, p.ev.id) ELSE hap,
         used |-> IF eval THEN 1 ELSE 0,
         under |-> FALSE]

\* the Random|Triggered arm of the scan; draw is the next value of the rng,
\* consumed only when the cap has not been reached
ScanRandom(p, hap, draw) ==
    LET reset == ResetStatus(p)
        eval == UnderCap(hap)
        hit == eval /\ Fires(draw, p.ev.prob)
    IN  [entry |-> [p EXCEPT !.status = IF hit THEN Triggered ELSE reset],
         hap |-> IF hit THEN Append(hap, p.ev.id) ELSE hap,
         used |-> IF eval THEN 1 ELSE 0,
         under |-> FALSE]

\* for (ev, status) in &mut self.events { match status { .. } }
RECURSIVE Scan(_, _, _, _, _, _)
Scan(evs, i, hap, draws, k, under) ==
    IF i > Len(evs)
    THEN [events |-> evs, happening |-> hap, used |-> k - 1, underflow |-> under]
    ELSE LET p == evs[i]
             r == IF p.status.kind = "Queued"
                  THEN ScanQueued(p, hap)
                  ELSE ScanRandom(p, hap, draws[k])
         IN  Scan([evs EXCEPT ![i] = r.entry], i + 1, r.hap, draws,
                  k + r.used, under \/ r.under)

\* EventPool::roll as a function of the pool, the shuffle and the rng's draws
RollResult(evs, perm, draws) ==
    Scan(Shuffle(Retain(evs), perm), 1, <<>>, draws, 1, FALSE)

\* the draws a roll can consume: one per Random|Triggered entry at most
NumSpontaneous(evs) ==
    Cardinality({i \in 1..Len(evs) : evs[i].status.kind # "Queued"})

\* EventPool::add_event; the event's id is the number of events added before
AddEvent(ev, status) ==
    /\ events' = Append(events, [ev |-> ev, status |-> status])
    /\ added' = Append(added, [ev |-> ev, status |-> status, at |-> rolls])
    /\ fired' = Append(fired, {})
    /\ UNCHANGED <<happening, rolls, underflow>>
    /\ UNCHANGED <<effVars, call, projVars>>

\* EventPool::roll
Roll ==
    /\ rolls < MaxRolls
    /\ LET kept == Retain(events)
       IN  \E perm \in Permutations(1..Len(kept)) :
           \E draws \in [1..(NumSpontaneous(kept) + 1) -> Draws] :
              LET r == RollResult(events, perm, draws)
              IN  /\ draws[NumSpontaneous(kept) + 1] = 0
                  /\ \A j \in 1..NumSpontaneous(kept) : j > r.used => draws[j] = 0
                  /\ events' = r.events
                  /\ happening' = r.happening
                  /\ rolls' = rolls + 1
                  /\ fired' = [i \in DOMAIN fired |->
                                 IF (i - 1) \in Range(r.happening)
                                 THEN fired[i] \cup {rolls + 1} ELSE fired[i]]
                  /\ underflow' = (underflow \/ r.underflow)
                  /\ UNCHANGED added
    /\ UNCHANGED <<effVars, call, projVars>>

\* the inputs of add_event: a Random event of any probability, or a Queued
\* event (its probability is never evaluated before it leaves the pool)
AddInputs(id) ==
    {<<Event(id, repeats, prob), Random>> : repeats \in BOOLEAN, prob \in Probs}
    \cup {<<Event(id, FALSE, ProbOne), Queued(n)>> : n \in 0..MaxQueue}

\* add_event with any event definition and any status
AddAny ==
    /\ Len(added) < MaxAdds
    /\ \E in \in AddInputs(Len(added)) : AddEvent(in[1], in[2])

PoolNext == AddAny \/ Roll

\* the pool of test_event_pool, in the order of its add_event calls
TestPool ==
    << <<Event(0, FALSE, ProbOne), Random>>,
       <<Event(1, TRUE, ProbOne), Random>>,
       <<Event(2, FALSE, ProbZero), Random>>,
       <<Event(3, FALSE, ProbOne), Queued(2)>>,
       <<Event(4, FALSE, ProbOne), Queued(1)>> >>

\* test_event_pool: the five add_event calls, then the rolls
TestAdd ==
    /\ Len(added) < Len(TestPool)
    /\ AddEvent(TestPool[Len(added) + 1][1], TestPool[Len(added) + 1][2])

TestRoll == Len(added) = Len(TestPool) /\ Roll

TestNext == TestAdd \/ TestRoll

\* a pool that can fill the firing list: one repeating and three one-off
\* events of probability 1 and two events queued for the next roll
CapPool ==
    << <<Event(0, TRUE, ProbOne), Random>>,
       <<Event(1, FALSE, ProbOne), Random>>,
       <<Event(2, FALSE, ProbOne), Random>>,
       <<Event(3, FALSE, ProbOne), Random>>,
       <<Event(4, TRUE, ProbOne), Queued(1)>>,
       <<Event(5, FALSE, ProbOne), Queued(1)>> >>

CapAdd ==
    /\ Len(added) < Len(CapPool)
    /\ AddEvent(CapPool[Len(added) + 1][1], CapPool[Len(added) + 1][2])

CapNext == CapAdd \/ Roll

\* events that are locked or not: spontaneous ones of either probability,
\* and one queued for the next roll
GatedInputs(id) ==
    {<<Gated(id, repeats, prob, locked), Random>> :
        repeats \in BOOLEAN, prob \in Probs, locked \in BOOLEAN}
    \cup {<<Gated(id, FALSE, ProbOne, locked), Queued(1)>> : locked \in BOOLEAN}

\* add_event of an event that may be locked
GatedAdd ==
    /\ Len(added) < MaxAdds
    /\ \E in \in GatedInputs(Len(added)) : AddEvent(in[1], in[2])

\* Effect::apply of AddEvent(id) on the pool: events[id].locked = false
UnlockEvent ==
    /\ \E i \in DOMAIN events :
          /\ events[i].ev.locked
          /\ events' = [events EXCEPT ![i].ev.locked = FALSE]
    /\ UNCHANGED <<happening, rolls, added, fired, underflow>>
    /\ UNCHANGED <<effVars, call, projVars>>

GatedNext == GatedAdd \/ UnlockEvent \/ Roll

(***************************************************************************)
(* Effect engine: src/hes-engine/src/events/effects.rs                     *)
(*                                                                         *)
(* An f32 is held as an integer: the fields and magnitudes of the model    *)
(* are integer-valued floats, and every sum, difference and product is     *)
(* rounded to the 24 significant bits of an f32, ties to even.  The two    *)
(* CO2 fields are held in units of 2^26 grams, the spacing of f32 values   *)
(* next to 1e15.                                                           *)
(***************************************************************************)
Abs(x) == IF x < 0 THEN -x ELSE x

\* the spacing of f32 values at magnitude a
Ulp(a) ==
    IF a < 2 ^ 24 THEN 1
    ELSE IF a < 2 ^ 25 THEN 2
    ELSE IF a < 2 ^ 26 THEN 4
    ELSE IF a < 2 ^ 27 THEN 8
    ELSE IF a < 2 ^ 28 THEN 16
    ELSE IF a < 2 ^ 29 THEN 32
    ELSE IF a < 2 ^ 30 THEN 64
    ELSE 128

\* the f32 nearest to the integer x, ties to the even mantissa
RoundF32(x) ==
    LET a == Abs(x)
        u == Ulp(a)
        q == a \div u
        r == a % u
        m == IF 2 * r > u \/ (2 * r = u /\ q % 2 = 1) THEN (q + 1) * u ELSE q * u
    IN  IF x < 0 THEN -m ELSE m

\* f32 +=, -=, *=, /=
FAdd(x, y) == RoundF32(x + y)
FSub(x, y) == RoundF32(x - y)
FMul(x, y) == RoundF32(x * y)
\* the quotients of the model are whole
FDiv(x, y) == RoundF32(x \div y)

\* `as usize` and `as isize` of an f32: saturating, toward zero
AsUsize(x) == IF x < 0 THEN 0 ELSE x
AsIsize(x) == x

\* 1e15 as an f32 is 14901161 * 2^26
E15 == 14901161

None == <<>>
Some(x) == <<x>>

Resources == {"Land", "Water"}
Outputs == {"Fuel", "Electricity"}
Byproducts == {"co2", "biodiversity"}
Feedstocks == {"Oil", "Coal"}
Features == {"IsSolar", "IsFossil"}

Big == 2 ^ 25

\* an Effect value: its variant, and the fields the variant carries (the
\* others are left at their defaults)
Eff(kind, sub, id, val, flag) ==
    [kind |-> kind, sub |-> sub, id |-> id, val |-> val, flag |-> flag]

\* the variants whose unapply takes the arm `_ => ()`
OneDirectional ==
    {"GameOver", "BailOut", "AddEvent", "TriggerEvent", "Migration",
     "RegionLeave", "AddRegionFlag", "ProjectRequest", "ProcessRequest",
     "AutoClick"}

\* the variants apply adds to a field and unapply subtracts from it
AdditiveKinds ==
    {"PlayerVariable", "RegionHabitability", "Resource", "Demand",
     "DemandAmount", "Output", "OutputForFeature", "OutputForProcess",
     "CO2ForFeature", "BiodiversityPressureForFeature", "ProcessLimit",
     "NPCRelationship", "ModifyProcessByproducts", "ModifyIndustryByproducts",
     "ModifyIndustryResources", "ModifyIndustryResourcesAmount",
     "ModifyEventProbability", "ModifyIndustryDemand", "ProjectCostModifier",
     "ProtectLand"}
Additive(e) ==
    \/ e.kind \in AdditiveKinds
    \/ e.kind = "WorldVariable" /\ e.sub # "Outlook"

\* the State a game starts an effect from
InitState ==
    [game_over |-> FALSE,
     political_capital |-> -2,
     research_points |-> 3,
     year |-> 2022,
     population_growth_modifier |-> 3,
     byproduct_mods |-> [b \in Byproducts |-> 3],
     co2_emissions |-> 3,
     base_outlook |-> 3,
     temperature_modifier |-> 3,
     water_stress |-> 3,
     sea_level_rise |-> 3,
     sea_level_rise_modifier |-> 3,
     precipitation |-> 3,
     regions |->
        << [id |-> 0, latitude |-> "Tropic", base_habitability |-> 1,
            population |-> 40, outlook |-> 3, seceded |-> FALSE, flags |-> <<>>,
            income_level |-> 1, demand_level |-> [o \in Outputs |-> 2]],
           [id |-> 1, latitude |-> "Temperate", base_habitability |-> 5,
            population |-> 60, outlook |-> 3, seceded |-> FALSE, flags |-> <<>>,
            income_level |-> 2, demand_level |-> [o \in Outputs |-> 1]] >>,
     resources |-> [r \in Resources |-> 3],
     output_demand_modifier |-> [o \in Outputs |-> 3],
     output_demand_extras |-> [o \in Outputs |-> 3],
     output_modifier |-> [o \in Outputs |-> 3],
     processes |->
        << [features |-> {"IsSolar"}, output_modifier |-> 3,
            byproduct_modifiers |-> [b \in Byproducts |-> 3],
            limit |-> None, locked |-> TRUE],
           [features |-> {"IsSolar", "IsFossil"}, output_modifier |-> 3,
            byproduct_modifiers |-> [b \in Byproducts |-> 3],
            limit |-> Some(3), locked |-> FALSE] >>,
     feedstocks |-> [f \in Feedstocks |-> 3],
     pool_events |->
        << [locked |-> TRUE, prob_modifier |-> 3],
           [locked |-> FALSE, prob_modifier |-> 3] >>,
     pool_queue |-> <<>>,
     projects |->
        << [name |-> "Solar Radiation Management", locked |-> FALSE,
            cost_modifier |-> 3, temperature_effect |-> 1],
           [name |-> "Other", locked |-> TRUE,
            cost_modifier |-> 3, temperature_effect |-> 0] >>,
     npcs |->
        << [name |-> "The Authoritarian", locked |-> TRUE, relationship |-> 3],
           [name |-> "Other", locked |-> FALSE, relationship |-> 3] >>,
     requests |-> <<>>,
     flags |-> <<"ClosedBorders">>,
     industries |->
        << [byproduct_modifiers |-> [b \in Byproducts |-> 3],
            resource_modifiers |-> [r \in Resources |-> 3],
            resources |-> [r \in Resources |-> 3],
            demand_modifier |-> 3] >>,
     protected_land |-> 3]

RECURSIVE SumOutlook(_, _)
SumOutlook(regions, i) ==
    IF i > Len(regions) THEN 0 ELSE regions[i].outlook + SumOutlook(regions, i + 1)

RECURSIVE SumHabitability(_, _)
SumHabitability(regions, i) ==
    IF i > Len(regions) THEN 0
    ELSE regions[i].base_habitability + SumHabitability(regions, i + 1)

\* state.outlook() < 0.: the base outlook plus the mean outlook of the regions
OutlookNegative(s) ==
    s.base_outlook * Len(s.regions) + SumOutlook(s.regions, 1) < 0

\* state.is_ally(name): the NPC of that name is an ally (relationship >= 5)
IsAlly(s, name) ==
    \E i \in DOMAIN s.npcs : s.npcs[i].name = name /\ s.npcs[i].relationship >= 5

\* event_pool.queue_event(id, region_id, years)
QueueEvent(s, id, rid, years) ==
    [s EXCEPT !.pool_queue = Append(@, <<id, rid, years>>)]

\* world.change_population(change)
ChangePopulation(s, change) ==
    [s EXCEPT !.regions =
        [i \in DOMAIN @ |-> [@[i] EXCEPT !.population = FAdd(@, change)]]]

\* region.habitability() > world.habitability(), the mean over the regions
AboveMeanHabitability(s, i) ==
    s.regions[i].base_habitability * Len(s.regions) > SumHabitability(s.regions, 1)

\* a check that takes no account of the ally
CheckGameOverWithoutAlly(s) ==
    IF OutlookNegative(s) THEN [s EXCEPT !.game_over = TRUE] ELSE s

\* a check that clears the flag when the outlook is not below 0
CheckGameOverRecomputes(s) ==
    [s EXCEPT !.game_over = ~IsAlly(s, "The Authoritarian") /\ OutlookNegative(s)]

check_game_over(s) ==
    IF ~IsAlly(s, "The Authoritarian") /\ OutlookNegative(s)
    THEN [s EXCEPT !.game_over = TRUE]
    ELSE s

\* a WorldVariable arm that stores the change in place of the sum
ApplyWorldVariableOverwrites(var, change, s) ==
    CASE var = "Outlook" -> check_game_over([s EXCEPT !.base_outlook = change])
      [] var = "Temperature" -> [s EXCEPT !.temperature_modifier = change]
      [] OTHER -> s

\* Effect::apply, the WorldVariable arm
ApplyWorldVariable(var, change, s) ==
    CASE var = "Year" -> [s EXCEPT !.year = @ + AsUsize(change)]
      [] var = "Population" -> ChangePopulation(s, change)
      [] var = "PopulationGrowth" ->
            [s EXCEPT !.population_growth_modifier = FAdd(@, FDiv(change, 100))]
      [] var = "Emissions" ->
            [s EXCEPT !.byproduct_mods.co2 = FAdd(@, FMul(change, E15)),
                      !.co2_emissions = FAdd(@, FMul(change, E15))]
      [] var = "ExtinctionRate" ->
            [s EXCEPT !.byproduct_mods.biodiversity = FSub(@, change)]
      [] var = "Outlook" ->
            check_game_over([s EXCEPT !.base_outlook = FAdd(@, change)])
      [] var = "Temperature" -> [s EXCEPT !.temperature_modifier = FAdd(@, change)]
      [] var = "WaterStress" -> [s EXCEPT !.water_stress = FAdd(@, change)]
      [] var = "SeaLevelRise" -> [s EXCEPT !.sea_level_rise = FAdd(@, change)]
      [] var = "SeaLevelRiseRate" ->
            [s EXCEPT !.sea_level_rise_modifier = FAdd(@, change)]
      [] var = "Precipitation" -> [s EXCEPT !.precipitation = FAdd(@, change)]

\* Effect::apply, the PlayerVariable arm
ApplyPlayerVariable(var, change, s) ==
    CASE var = "PoliticalCapital" ->
            [s EXCEPT !.political_capital = @ + AsIsize(change)]
      [] var = "ResearchPoints" ->
            [s EXCEPT !.research_points = @ + AsIsize(change)]
      [] OTHER -> s

\* Effect::apply, the BailOut arm
ApplyBailOut(amount, s) ==
    [s EXCEPT !.political_capital = (IF @ < 0 THEN 0 ELSE @) + amount]

\* Effect::apply, the three arms that change the processes with a feature
ApplyForFeature(kind, feat, change, s) ==
    [s EXCEPT !.processes =
        [i \in DOMAIN @ |->
            IF feat \notin @[i].features THEN @[i]
            ELSE CASE kind = "OutputForFeature" ->
                        [@[i] EXCEPT !.output_modifier = FAdd(@, change)]
                   [] kind = "CO2ForFeature" ->
                        [@[i] EXCEPT !.byproduct_modifiers.co2 = FAdd(@, change)]
                   [] kind = "BiodiversityPressureForFeature" ->
                        [@[i] EXCEPT
                            !.byproduct_modifiers.biodiversity = FAdd(@, change)]]]

\* Effect::apply, the Migration arm; a tenth of the region's population (a
\* twentieth with closed borders) leaves, in whole units, and is shared by
\* the other regions of more than mean habitability
ApplyMigration(s, rid) ==
    IF rid = None THEN s
    ELSE LET id == rid[1] + 1
             leave_pop == IF \E k \in DOMAIN s.flags : s.flags[k] = "ClosedBorders"
                          THEN (s.regions[id].population \div 10) \div 2
                          ELSE s.regions[id].population \div 10
             left == [s EXCEPT !.regions[id].population = FSub(@, leave_pop)]
             targets == {i \in DOMAIN s.regions :
                           i # id /\ AboveMeanHabitability(left, i)}
         IN  IF targets = {} THEN left
             ELSE [left EXCEPT !.regions =
                     [i \in DOMAIN @ |->
                        IF i \in targets
                        THEN [@[i] EXCEPT !.population =
                                FAdd(@, leave_pop \div Cardinality(targets))]
                        ELSE @[i]]]

\* a secession that falls on the first region when no region is given
ApplyRegionLeaveFirst(s, rid) ==
    [s EXCEPT !.regions[(IF rid = None THEN 0 ELSE rid[1]) + 1].seceded = TRUE]

\* Effect::apply, the RegionLeave arm
ApplyRegionLeave(s, rid) ==
    IF rid = None THEN s
    ELSE [s EXCEPT !.regions[rid[1] + 1].seceded = TRUE]

\* Effect::apply, the DemandOutlookChange and IncomeOutlookChange arms;
\* level(region) is the region's demand level or income level
ApplyOutlookChange(e, s) ==
    check_game_over(
        [s EXCEPT !.regions =
            [i \in DOMAIN @ |->
                [@[i] EXCEPT !.outlook =
                    FAdd(@, FMul(e.val,
                                 IF e.kind = "DemandOutlookChange"
                                 THEN s.regions[i].demand_level[e.sub]
                                 ELSE s.regions[i].income_level))]]])

\* Effect::apply
ApplyEffect(e, s, rid) ==
    CASE e.kind = "GameOver" -> [s EXCEPT !.game_over = TRUE]
      [] e.kind = "BailOut" -> ApplyBailOut(e.val, s)
      [] e.kind = "WorldVariable" -> ApplyWorldVariable(e.sub, e.val, s)
      [] e.kind = "PlayerVariable" -> ApplyPlayerVariable(e.sub, e.val, s)
      [] e.kind = "RegionHabitability" ->
            [s EXCEPT !.regions =
                [i \in DOMAIN @ |->
                    IF @[i].latitude = e.sub
                    THEN [@[i] EXCEPT !.base_habitability = FAdd(@, e.val)]
                    ELSE @[i]]]
      [] e.kind = "Resource" -> [s EXCEPT !.resources[e.sub] = FAdd(@, e.val)]
      [] e.kind = "Demand" ->
            [s EXCEPT !.output_demand_modifier[e.sub] = FAdd(@, e.val)]
      [] e.kind = "DemandAmount" ->
            [s EXCEPT !.output_demand_extras[e.sub] = FAdd(@, e.val)]
      [] e.kind = "Output" -> [s EXCEPT !.output_modifier[e.sub] = FAdd(@, e.val)]
      [] e.kind \in {"OutputForFeature", "CO2ForFeature",
                     "BiodiversityPressureForFeature"} ->
            ApplyForFeature(e.kind, e.sub, e.val, s)
      [] e.kind = "OutputForProcess" ->
            [s EXCEPT !.processes[e.id + 1].output_modifier = FAdd(@, e.val)]
      [] e.kind = "ProcessLimit" ->
            [s EXCEPT !.processes[e.id + 1].limit =
                IF @ = None THEN None ELSE Some(FAdd(@[1], e.val))]
      [] e.kind = "Feedstock" ->
            [s EXCEPT !.feedstocks[e.sub] = FMul(@, 1 + e.val)]
      [] e.kind = "AddEvent" ->
            [s EXCEPT !.pool_events[e.id + 1].locked = FALSE]
      [] e.kind = "TriggerEvent" -> QueueEvent(s, e.id, rid, e.val)
      [] e.kind = "LocksProject" -> [s EXCEPT !.projects[e.id + 1].locked = TRUE]
      [] e.kind = "UnlocksProject" -> [s EXCEPT !.projects[e.id + 1].locked = FALSE]
      [] e.kind = "UnlocksProcess" -> [s EXCEPT !.processes[e.id + 1].locked = FALSE]
      [] e.kind = "UnlocksNPC" -> [s EXCEPT !.npcs[e.id + 1].locked = FALSE]
      [] e.kind = "ProjectRequest" ->
            [s EXCEPT !.requests = Append(@, <<"Project", e.id, e.flag, e.val>>)]
      [] e.kind = "ProcessRequest" ->
            [s EXCEPT !.requests = Append(@, <<"Process", e.id, e.flag, e.val>>)]
      [] e.kind = "Migration" -> ApplyMigration(s, rid)
      [] e.kind = "RegionLeave" -> ApplyRegionLeave(s, rid)
      [] e.kind = "AddRegionFlag" ->
            IF rid = None THEN s
            ELSE [s EXCEPT !.regions[rid[1] + 1].flags = Append(@, e.sub)]
      [] e.kind = "AddFlag" -> [s EXCEPT !.flags = Append(@, e.sub)]
      [] e.kind = "NPCRelationship" ->
            [s EXCEPT !.npcs[e.id + 1].relationship = FAdd(@, e.val)]
      [] e.kind = "ModifyProcessByproducts" ->
            [s EXCEPT !.processes[e.id + 1].byproduct_modifiers[e.sub] =
                FAdd(@, e.val)]
      [] e.kind = "ModifyIndustryByproducts" ->
            [s EXCEPT !.industries[e.id + 1].byproduct_modifiers[e.sub] =
                FAdd(@, e.val)]
      [] e.kind = "ModifyIndustryResources" ->
            [s EXCEPT !.industries[e.id + 1].resource_modifiers[e.sub] =
                FAdd(@, e.val)]
      [] e.kind = "ModifyIndustryResourcesAmount" ->
            [s EXCEPT !.industries[e.id + 1].resources[e.sub] = FAdd(@, e.val)]
      [] e.kind = "ModifyEventProbability" ->
            [s EXCEPT !.pool_events[e.id + 1].prob_modifier = FAdd(@, e.val)]
      [] e.kind = "ModifyIndustryDemand" ->
            [s EXCEPT !.industries[e.id + 1].demand_modifier = FAdd(@, e.val)]
      [] e.kind \in {"DemandOutlookChange", "IncomeOutlookChange"} ->
            ApplyOutlookChange(e, s)
      [] e.kind = "ProjectCostModifier" ->
            [s EXCEPT !.projects[e.id + 1].cost_modifier = FAdd(@, e.val)]
      [] e.kind = "ProtectLand" ->
            [s EXCEPT !.protected_land = FAdd(@, FDiv(e.val, 100))]
      [] OTHER -> s

\* Effect::unapply, the WorldVariable arm
UnapplyWorldVariable(var, change, s) ==
    CASE var = "Year" -> [s EXCEPT !.year = @ - AsUsize(change)]
      [] var = "Population" -> ChangePopulation(s, -change)
      [] var = "PopulationGrowth" ->
            [s EXCEPT !.population_growth_modifier = FSub(@, FDiv(change, 100))]
      [] var = "Emissions" ->
            [s EXCEPT !.byproduct_mods.co2 = FSub(@, FMul(change, E15)),
                      !.co2_emissions = FSub(@, FMul(change, E15))]
      [] var = "ExtinctionRate" ->
            [s EXCEPT !.byproduct_mods.biodiversity = FAdd(@, change)]
      [] var = "Outlook" -> [s EXCEPT !.base_outlook = FSub(@, change)]
      [] var = "Temperature" -> [s EXCEPT !.temperature_modifier = FSub(@, change)]
      [] var = "WaterStress" -> [s EXCEPT !.water_stress = FSub(@, change)]
      [] var = "SeaLevelRise" -> [s EXCEPT !.sea_level_rise = FSub(@, change)]
      [] var = "SeaLevelRiseRate" ->
            [s EXCEPT !.sea_level_rise_modifier = FSub(@, change)]
      [] var = "Precipitation" -> [s EXCEPT !.precipitation = FSub(@, change)]

\* Effect::unapply, the PlayerVariable arm
UnapplyPlayerVariable(var, change, s) ==
    CASE var = "PoliticalCapital" ->
            [s EXCEPT !.political_capital = @ - AsIsize(change)]
      [] var = "ResearchPoints" ->
            [s EXCEPT !.research_points = @ - AsIsize(change)]
      [] OTHER -> s

\* Effect::unapply, the three arms that change the processes with a feature
UnapplyForFeature(kind, feat, change, s) ==
    [s EXCEPT !.processes =
        [i \in DOMAIN @ |->
            IF feat \notin @[i].features THEN @[i]
            ELSE CASE kind = "OutputForFeature" ->
                        [@[i] EXCEPT !.output_modifier = FSub(@, change)]
                   [] kind = "CO2ForFeature" ->
                        [@[i] EXCEPT !.byproduct_modifiers.co2 = FSub(@, change)]
                   [] kind = "BiodiversityPressureForFeature" ->
                        [@[i] EXCEPT
                            !.byproduct_modifiers.biodiversity = FSub(@, change)]]]

\* Effect::unapply, the DemandOutlookChange and IncomeOutlookChange arms
UnapplyOutlookChange(e, s) ==
    [s EXCEPT !.regions =
        [i \in DOMAIN @ |->
            [@[i] EXCEPT !.outlook =
                FSub(@, FMul(e.val,
                             IF e.kind = "DemandOutlookChange"
                             THEN s.regions[i].demand_level[e.sub]
                             ELSE s.regions[i].income_level))]]]

\* Effect::unapply, the TerminationShock arm: the Temperature effects of
\* the project Solar Radiation Management are taken back
UnapplyTerminationShock(s) ==
    LET p == CHOOSE i \in DOMAIN s.projects :
                 s.projects[i].name = "Solar Radiation Management"
    IN  [s EXCEPT !.temperature_modifier = FSub(@, s.projects[p].temperature_effect)]

\* Effect::unapply, the AddFlag arm: the first occurrence of the flag goes
UnapplyAddFlag(flag, s) ==
    LET at == {k \in DOMAIN s.flags : s.flags[k] = flag}
    IN  IF at = {} THEN s
        ELSE LET idx == CHOOSE k \in at : \A j \in at : k <= j
             IN  [s EXCEPT !.flags =
                     SubSeq(@, 1, idx - 1) \o SubSeq(@, idx + 1, Len(@))]

\* an unapply that gives back what a bail-out paid and takes a seceded
\* region back in
UnapplyOtherUndoes(e, s, rid) ==
    CASE e.kind = "BailOut" -> [s EXCEPT !.political_capital = @ - e.val]
      [] e.kind = "RegionLeave" /\ rid # None ->
            [s EXCEPT !.regions[rid[1] + 1].seceded = FALSE]
      [] OTHER -> s

\* Effect::unapply, the arm `_ => ()`: other effects aren't reversible
UnapplyOther(e, s, rid) == s

\* Effect::unapply
UnapplyEffect(e, s, rid) ==
    CASE e.kind = "WorldVariable" -> UnapplyWorldVariable(e.sub, e.val, s)
      [] e.kind = "PlayerVariable" -> UnapplyPlayerVariable(e.sub, e.val, s)
      [] e.kind = "RegionHabitability" ->
            [s EXCEPT !.regions =
                [i \in DOMAIN @ |->
                    IF @[i].latitude = e.sub
                    THEN [@[i] EXCEPT !.base_habitability = FSub(@, e.val)]
                    ELSE @[i]]]
      [] e.kind = "Resource" -> [s EXCEPT !.resources[e.sub] = FSub(@, e.val)]
      [] e.kind = "Demand" ->
            [s EXCEPT !.output_demand_modifier[e.sub] = FSub(@, e.val)]
      [] e.kind = "DemandAmount" ->
            [s EXCEPT !.output_demand_extras[e.sub] = FSub(@, e.val)]
      [] e.kind = "Output" -> [s EXCEPT !.output_modifier[e.sub] = FSub(@, e.val)]
      [] e.kind \in {"OutputForFeature", "CO2ForFeature",
                     "BiodiversityPressureForFeature"} ->
            UnapplyForFeature(e.kind, e.sub, e.val, s)
      [] e.kind = "OutputForProcess" ->
            [s EXCEPT !.processes[e.id + 1].output_modifier = FSub(@, e.val)]
      [] e.kind = "ProcessLimit" ->
            [s EXCEPT !.processes[e.id + 1].limit =
                IF @ = None THEN None ELSE Some(FSub(@[1], e.val))]
      [] e.kind = "Feedstock" ->
            [s EXCEPT !.feedstocks[e.sub] = FDiv(@, 1 + e.val)]
      [] e.kind = "NPCRelationship" ->
            [s EXCEPT !.npcs[e.id + 1].relationship = FSub(@, e.val)]
      [] e.kind = "ModifyProcessByproducts" ->
            [s EXCEPT !.processes[e.id + 1].byproduct_modifiers[e.sub] =
                FSub(@, e.val)]
      [] e.kind = "ModifyIndustryByproducts" ->
            [s EXCEPT !.industries[e.id + 1].byproduct_modifiers[e.sub] =
                FSub(@, e.val)]
      [] e.kind = "ModifyIndustryResources" ->
            [s EXCEPT !.industries[e.id + 1].resource_modifiers[e.sub] =
                FSub(@, e.val)]
      [] e.kind = "ModifyIndustryResourcesAmount" ->
            [s EXCEPT !.industries[e.id + 1].resources[e.sub] = FSub(@, e.val)]
      [] e.kind = "ModifyEventProbability" ->
            [s EXCEPT !.pool_events[e.id + 1].prob_modifier = FSub(@, e.val)]
      [] e.kind = "ModifyIndustryDemand" ->
            [s EXCEPT !.industries[e.id + 1].demand_modifier = FSub(@, e.val)]
      [] e.kind \in {"DemandOutlookChange", "IncomeOutlookChange"} ->
            UnapplyOutlookChange(e, s)
      [] e.kind = "ProjectCostModifier" ->
            [s EXCEPT !.projects[e.id + 1].cost_modifier = FSub(@, e.val)]
      [] e.kind = "TerminationShock" -> UnapplyTerminationShock(s)
      [] e.kind = "ProtectLand" ->
            [s EXCEPT !.protected_land = FSub(@, FDiv(e.val, 100))]
      [] e.kind = "AddFlag" -> UnapplyAddFlag(e.sub, s)
      [] e.kind = "LocksProject" -> [s EXCEPT !.projects[e.id + 1].locked = FALSE]
      [] e.kind = "UnlocksProject" -> [s EXCEPT !.projects[e.id + 1].locked = TRUE]
      [] e.kind = "UnlocksProcess" -> [s EXCEPT !.processes[e.id + 1].locked = TRUE]
      [] e.kind = "UnlocksNPC" -> [s EXCEPT !.npcs[e.id + 1].locked = TRUE]
      [] OTHER -> UnapplyOther(e, s, rid)

\* the effects the model applies: every variant, with a region id or without
\* where the variant reads it
W(var, val) == Eff("WorldVariable", var, 0, val, FALSE)
V(kind, sub, val) == Eff(kind, sub, 0, val, FALSE)
I(kind, id, val) == Eff(kind, "", id, val, FALSE)
IS(kind, id, sub, val) == Eff(kind, sub, id, val, FALSE)

GlobalEffects ==
    {W("Year", 1), W("PopulationGrowth", 100), W("Emissions", 1),
     W("ExtinctionRate", 1), W("Outlook", 1), W("Outlook", -8),
     W("Temperature", 1), W("Temperature", Big), W("WaterStress", 1),
     W("SeaLevelRise", 1), W("SeaLevelRiseRate", 1), W("Precipitation", 1),
     V("PlayerVariable", "PoliticalCapital", 2),
     V("PlayerVariable", "ResearchPoints", 2),
     V("PlayerVariable", "YearsToDeath", 2),
     V("Resource", "Land", 1), V("Resource", "Water", Big),
     V("Demand", "Fuel", 1), V("DemandAmount", "Fuel", 1), V("Output", "Fuel", 1),
     V("OutputForFeature", "IsSolar", 1), V("CO2ForFeature", "IsFossil", 1),
     V("BiodiversityPressureForFeature", "IsSolar", 1),
     I("OutputForProcess", 0, 1), I("ProcessLimit", 0, 1), I("ProcessLimit", 1, 1),
     V("Feedstock", "Oil", 1),
     I("AddEvent", 0, 0),
     I("LocksProject", 0, 0), I("LocksProject", 1, 0),
     I("UnlocksProject", 0, 0), I("UnlocksProject", 1, 0),
     I("UnlocksProcess", 0, 0), I("UnlocksProcess", 1, 0),
     I("UnlocksNPC", 0, 0), I("UnlocksNPC", 1, 0),
     Eff("ProjectRequest", "", 0, 5, TRUE), Eff("ProcessRequest", "", 1, 5, FALSE),
     V("TerminationShock", "", 0),
     V("AddFlag", "Vegan", 0), V("AddFlag", "ClosedBorders", 0),
     I("AutoClick", 0, 1), I("NPCRelationship", 0, 1), I("NPCRelationship", 0, 2),
     IS("ModifyProcessByproducts", 0, "co2", 1),
     IS("ModifyIndustryByproducts", 0, "co2", 1),
     IS("ModifyIndustryResources", 0, "Land", 1),
     IS("ModifyIndustryResourcesAmount", 0, "Land", 1),
     I("ModifyEventProbability", 0, 1), I("ModifyIndustryDemand", 0, 1),
     V("DemandOutlookChange", "Fuel", 1), V("IncomeOutlookChange", "", -4),
     I("ProjectCostModifier", 0, 1), V("ProtectLand", "", 100),
     I("BailOut", 0, 10), V("GameOver", "", 0)}

RegionalEffects ==
    {I("TriggerEvent", 1, 2), V("Migration", "", 0), V("RegionLeave", "", 0),
     V("AddRegionFlag", "flooded", 0), V("RegionHabitability", "Tropic", 1)}

EffectInputs ==
    {<<e, None>> : e \in GlobalEffects}
    \cup {<<e, rid>> : e \in RegionalEffects, rid \in {None, Some(0)}}
    \cup {<<I("BailOut", 0, 10), Some(0)>>, <<V("GameOver", "", 0), Some(0)>>}

\* the effects applied after the first one
NestedInputs ==
    {<<W("Temperature", 1), None>>, <<W("Temperature", Big), None>>,
     <<I("ProcessLimit", 1, 1), None>>, <<V("AddFlag", "Vegan", 0), None>>,
     <<W("Outlook", -8), None>>, <<V("RegionLeave", "", 0), Some(1)>>,
     <<V("RegionLeave", "", 0), None>>,
     <<V("AddFlag", "ClosedBorders", 0), None>>,
     <<V("IncomeOutlookChange", "", -4), None>>}

ApplyInputs(n) == IF n = 0 THEN EffectInputs ELSE NestedInputs

\* Effect::apply on the current state; the state before it is kept so that
\* the unapply that answers it can be compared
Apply ==
    /\ Len(stack) < MaxDepth
    /\ applies < MaxApplies
    /\ applies' = applies + 1
    /\ \E in \in ApplyInputs(applies) :
          LET e == in[1]
              rid == in[2]
          IN  /\ state' = ApplyEffect(e, state, rid)
              /\ stack' = Append(
                    [i \in DOMAIN stack |->
                        [stack[i] EXCEPT !.pure = @ /\ Additive(e)]],
                    [effect |-> e, rid |-> rid, saved |-> state, pure |-> TRUE])
              /\ last' = [op |-> "apply", effect |-> e, rid |-> rid,
                          saved |-> state, pure |-> TRUE]
    /\ UNCHANGED <<poolVars, call, projVars>>

\* Effect::unapply of the effect applied last and not yet unapplied, with
\* the region id of its apply
Unapply ==
    /\ stack # <<>>
    /\ LET top == stack[Len(stack)]
       IN  /\ state' = UnapplyEffect(top.effect, state, top.rid)
           /\ stack' = SubSeq(stack, 1, Len(stack) - 1)
           /\ UNCHANGED applies
           /\ last' = [op |-> "unapply", effect |-> top.effect, rid |-> top.rid,
                       saved |-> top.saved, pure |-> top.pure]
    /\ UNCHANGED <<poolVars, call, projVars>>

EffNext == Apply \/ Unapply

\* no call made yet
NoCall == [op |-> "none"]

\* no project constructed yet
NoProject == [status |-> "None"]

(***************************************************************************)
(* Functions of an Effect: scaling and fingerprint                         *)
(***************************************************************************)
\* the variants that carry an f32 magnitude
MagnitudeKinds ==
    {"WorldVariable", "PlayerVariable", "RegionHabitability", "Resource",
     "Demand", "Output", "DemandAmount", "OutputForFeature", "OutputForProcess",
     "CO2ForFeature", "BiodiversityPressureForFeature", "ProcessLimit",
     "Feedstock", "AutoClick", "NPCRelationship", "ModifyProcessByproducts",
     "ModifyIndustryByproducts", "ModifyIndustryResources",
     "ModifyIndustryResourcesAmount", "ModifyEventProbability",
     "ModifyIndustryDemand", "DemandOutlookChange", "IncomeOutlookChange",
     "ProjectCostModifier", "ProtectLand"}

\* the variants whose arm of mul multiplies the magnitude and keeps the variant
ScaledKinds ==
    {"WorldVariable", "PlayerVariable", "Resource", "Demand", "Output",
     "DemandAmount", "OutputForFeature", "OutputForProcess", "Feedstock",
     "ModifyIndustryByproducts", "ModifyIndustryResources",
     "ModifyIndustryDemand", "ModifyEventProbability", "DemandOutlookChange",
     "IncomeOutlookChange", "ProjectCostModifier", "ProtectLand"}

\* impl Mul<f32> for Effect
Mul(e, rhs) ==
    CASE e.kind \in ScaledKinds -> [e EXCEPT !.val = FMul(@, rhs)]
      [] e.kind = "ModifyIndustryResourcesAmount" ->
            [e EXCEPT !.kind = "ModifyIndustryResources", !.val = FMul(@, rhs)]
      [] OTHER -> e

\* the variants for which fingerprint takes a sub-key from the target
SubkindKinds ==
    {"WorldVariable", "PlayerVariable", "RegionHabitability", "Resource",
     "Demand", "Output", "DemandAmount", "OutputForFeature", "CO2ForFeature",
     "BiodiversityPressureForFeature", "Feedstock", "ModifyProcessByproducts",
     "ModifyIndustryByproducts", "ModifyIndustryResources",
     "ModifyIndustryResourcesAmount", "DemandOutlookChange"}

\* the match of fingerprint: the name of the enumeration member, or ""
Subkind(e) == IF e.kind \in SubkindKinds THEN e.sub ELSE ""

\* a fingerprint of the variant tag alone
FingerprintTagOnly(e) == e.kind \o ":"

\* Effect::fingerprint: format!("{discrim}:{subkind}")
Fingerprint(e) == e.kind \o ":" \o Subkind(e)

\* the effects and the factors the functions are called with
FunctionEffects == GlobalEffects \cup RegionalEffects
Factors == {0, 1, 2, 3}

\* effect * rhs, once in a behaviour
Scale ==
    /\ call.op = "none"
    /\ \E e \in FunctionEffects, rhs \in Factors :
          call' = [op |-> "mul", effect |-> e, rhs |-> rhs, result |-> Mul(e, rhs)]
    /\ UNCHANGED <<poolVars, effVars, projVars>>

\* a.fingerprint() and b.fingerprint(), to be compared, once in a behaviour
Fingerprints ==
    /\ call.op = "none"
    /\ \E a \in FunctionEffects, b \in FunctionEffects :
          call' = [op |-> "fingerprint", a |-> a, b |-> b,
                   fa |-> Fingerprint(a), fb |-> Fingerprint(b)]
    /\ UNCHANGED <<poolVars, effVars, projVars>>

FunctionNext == Scale \/ Fingerprints

(***************************************************************************)
(* Projects: src/hes-engine/src/projects.rs                                *)
(*                                                                         *)
(* progress is an f32 in [0, 2), held in units of 2^-30: every f32 from    *)
(* 2^-7 up is a whole number of units, and RoundF32 rounds a number of     *)
(* units to 24 significant bits as it rounds an integer.                   *)
(***************************************************************************)
\* 1.0 in units of progress
One == 2 ^ 30

\* f32 +inf, and usize::MAX after `as usize`: above every finite value of
\* the model
Inf == 2 ^ 30

ProjectStatus == {"Inactive", "Building", "Active", "Halted", "Stalled", "Finished"}

\* (points as f32).powf(1. / 2.75) in millionths, for points = 1 .. 10
PowScale == 1000000
PowTable ==
    <<1000000, 1286665, 1491072, 1655507, 1795440, 1918510, 2029123, 2130082,
      2223296, 2310130>>

\* f32::round of the quotient n / d of two positive integers: half away from zero
RoundDiv(n, d) == (2 * n + d) \div (2 * d)

Max(a, b) == IF a >= b THEN a ELSE b

\* a years_for_points without its floor of 1
YearsUnfloored(points, cost) ==
    IF points = 0
    THEN IF cost = 0 THEN 0 ELSE Inf
    ELSE RoundDiv(cost * PowScale, PowTable[points])

\* years_for_points; 0^(1/2.75) is 0, so with points = 0 the quotient is
\* +inf for a cost above 0, and NaN for cost 0, which max(1.) turns into 1
years_for_points(points, cost) ==
    IF points = 0
    THEN IF cost = 0 THEN 1 ELSE Inf
    ELSE Max(RoundDiv(cost * PowScale, PowTable[points]), 1)

\* 1. / y as an f32, in units of progress: the quotient rounded to 24 bits,
\* ties to even; 1. / inf is 0
Recip(y) ==
    IF y = Inf THEN 0
    ELSE LET u == Ulp(One \div y)
             n == One \div (y * u)
             r == One - n * y * u
         IN  IF 2 * r > y * u \/ (2 * r = y * u /\ n % 2 = 1)
             THEN (n + 1) * u ELSE n * u

\* Project::is_online
is_online(p) == p.status = "Active" \/ p.status = "Finished"

\* a build that is done only past 1
CompleteStrict(progress) == progress > One

\* if self.progress >= 1.
Complete(progress) == progress >= One

\* a build that advances whatever the status
BuildOtherAdvances(p) ==
    [project |-> [p EXCEPT !.progress = FAdd(@, Recip(years_for_points(p.points, p.cost)))],
     ret |-> FALSE]

\* Project::build, the arm `_ => false`
BuildOther(p) == [project |-> p, ret |-> FALSE]

\* Project::build, the arm Status::Building
BuildBuilding(p) ==
    LET progress == FAdd(p.progress, Recip(years_for_points(p.points, p.cost)))
    IN  IF Complete(progress)
        THEN [project |-> [p EXCEPT !.progress = progress,
                                    !.status = IF p.ongoing THEN "Active"
                                               ELSE "Finished"],
              ret |-> TRUE]
        ELSE [project |-> [p EXCEPT !.progress = progress], ret |-> FALSE]

\* Project::build
build(p) == IF p.status = "Building" THEN BuildBuilding(p) ELSE BuildOther(p)

\* Project::set_points
set_points(p, points) ==
    [p EXCEPT !.points = points,
              !.estimate = AsUsize(years_for_points(points, p.cost))]

\* an upgrade that goes one level past the last
CanUpgradeLoose(p) == p.level <= Len(p.upgrades)

\* if self.level < self.upgrades.len()
CanUpgrade(p) == p.level < Len(p.upgrades)

\* an upgrade that sends the project back to building
UpgradeRestarts(p) ==
    IF CanUpgrade(p)
    THEN [project |-> [p EXCEPT !.level = @ + 1, !.status = "Building"], ret |-> TRUE]
    ELSE [project |-> p, ret |-> FALSE]

\* Project::upgrade
upgrade(p) ==
    IF CanUpgrade(p)
    THEN [project |-> [p EXCEPT !.level = @ + 1], ret |-> TRUE]
    ELSE [project |-> p, ret |-> FALSE]

\* Project::downgrade
downgrade(p) ==
    IF p.level > 0
    THEN [project |-> [p EXCEPT !.level = @ - 1], ret |-> TRUE]
    ELSE [project |-> p, ret |-> FALSE]

\* the index self.level - 1 of active_effects is inside self.upgrades (the
\* indexing panics when it is not)
IndexInBounds(p) == p.level = 0 \/ p.level - 1 < Len(p.upgrades)

\* active effects that stack the upgrade on the base effects
ActiveEffectsStacked(p) ==
    IF p.level = 0 THEN p.effects ELSE p.effects \o p.upgrades[p.level].effects

\* Project::active_effects; upgrades[level - 1] is the level-th of the sequence
active_effects(p) ==
    IF p.level = 0 THEN p.effects ELSE p.upgrades[p.level].effects

\* outcome effects and active effects whatever the status
WithOutcomesAlways(p) ==
    active_effects(p)
        \o (IF p.active_outcome = None THEN <<>>
            ELSE p.outcomes[p.active_outcome[1] + 1].effects)

\* Project::active_effects_with_outcomes
active_effects_with_outcomes(p) ==
    IF is_online(p)
    THEN active_effects(p)
            \o (IF p.active_outcome = None THEN <<>>
                ELSE p.outcomes[p.active_outcome[1] + 1].effects)
    ELSE <<>>

\* the f32 arguments and fields of update_cost and required_majority are
\* held in quarters: the values of the model and their products are whole
\* numbers of sixteenths below 2^24, which f32 arithmetic gives exactly
Q == 4

\* f32::round of n / d for d > 0: half away from zero
Round(n, d) == IF n >= 0 THEN RoundDiv(n, d) ELSE -RoundDiv(-n, d)

\* Cost::Fixed(c) and Cost::Dynamic(m, factor); Factor::Output(output)
Fixed(c) == [kind |-> "Fixed", c |-> c, m |-> 0, factor |-> "", output |-> ""]
Dynamic(m, factor, output) ==
    [kind |-> "Dynamic", c |-> 0, m |-> m, factor |-> factor, output |-> output]

\* a dynamic cost that takes the factor without its multiplier
DynamicFactorUnscaled(base_cost, year, income_level, demand) ==
    CASE base_cost.factor = "Time" -> Q * (year - 1980)
      [] base_cost.factor = "Income" -> Q + income_level
      [] base_cost.factor = "Output" -> demand[base_cost.output]

\* Project::update_cost, the arm Cost::Dynamic: m times the factor, in
\* sixteenths, before it is rounded
DynamicFactor(base_cost, year, income_level, demand) ==
    CASE base_cost.factor = "Time" -> base_cost.m * (Q * (year - 1980))
      [] base_cost.factor = "Income" -> base_cost.m * (Q + income_level)
      [] base_cost.factor = "Output" -> base_cost.m * demand[base_cost.output]

\* Project::update_cost, `let cost = match self.base_cost`
BaseCost(base_cost, year, income_level, demand) ==
    IF base_cost.kind = "Fixed" THEN base_cost.c
    ELSE AsUsize(Round(DynamicFactor(base_cost, year, income_level, demand), Q * Q))

\* Project::update_cost
update_cost(p, year, income_level, demand, modifier) ==
    [p EXCEPT !.cost =
        AsUsize(Round(BaseCost(p.base_cost, year, income_level, demand)
                        * p.cost_modifier * modifier, Q * Q))]

\* an opposer counted whatever its relation
OpposesLoose(npc) == ~npc.locked

\* Project::update_required_majority, the filter of the opposers
Opposes(npc) == ~npc.locked /\ npc.relation # "Ally"

\* Project::update_required_majority, the filter of the supporters
Supports(npc) == ~npc.locked

\* `let opposers = ..count()`; npcs[id] is the id+1-th of the sequence
CountOpposers(p, npcs) ==
    Cardinality({k \in DOMAIN p.opposers : Opposes(npcs[p.opposers[k] + 1])})

\* `let supporters = ..count()`
CountSupporters(p, npcs) ==
    Cardinality({k \in DOMAIN p.supporters : Supports(npcs[p.supporters[k] + 1])})

\* Project::update_required_majority
update_required_majority(p, npcs) ==
    [p EXCEPT !.required_majority =
        IF CountOpposers(p, npcs) > CountSupporters(p, npcs)
        THEN Q \div 2 ELSE 0]

\* the values the model gives to cost and points
Costs == {0, 1, 3, 10}
Points == {0, 1, 2, 10}

\* a Project literal as the tests build it: no progress, no estimate, level
\* 0, no point or one; base effects, two upgrades and two outcomes
ProjectLiteral(cost, points, status, ongoing, active_outcome) ==
    [cost |-> cost, base_cost |-> Fixed(cost), cost_modifier |-> Q,
     required_majority |-> 0, opposers |-> <<>>, supporters |-> <<>>,
     points |-> points, estimate |-> 0, progress |-> 0,
     status |-> status, ongoing |-> ongoing, level |-> 0,
     effects |-> <<W("Temperature", 1)>>,
     upgrades |-> << [cost |-> 1, effects |-> <<W("Temperature", 2)>>],
                     [cost |-> 2, effects |-> <<W("Temperature", 3),
                                                V("Resource", "Land", 1)>>] >>,
     outcomes |-> << [effects |-> <<W("Outlook", 1)>>],
                     [effects |-> <<W("Outlook", -8)>>] >>,
     active_outcome |-> active_outcome]

\* let mut p = Project { .. }
NewProject ==
    /\ project = NoProject
    /\ \E cost \in Costs, points \in {0, 1}, status \in ProjectStatus,
          ongoing \in BOOLEAN, active_outcome \in {None, Some(1)} :
          project' = ProjectLiteral(cost, points, status, ongoing, active_outcome)
    /\ pcall' = [op |-> "new", ret |-> FALSE, before |-> NoProject]
    /\ UNCHANGED <<poolVars, effVars, call, builds, updates>>

\* p.build()
Build ==
    /\ project # NoProject
    /\ builds < MaxBuilds
    /\ LET r == build(project)
       IN  /\ project' = r.project
           /\ pcall' = [op |-> "build", ret |-> r.ret, before |-> project]
    /\ builds' = builds + 1
    /\ UNCHANGED <<poolVars, effVars, call, updates>>

\* p.set_points(points)
SetPoints ==
    /\ project # NoProject
    /\ \E points \in Points :
          /\ project' = set_points(project, points)
          /\ pcall' = [op |-> "set_points", ret |-> FALSE, before |-> project]
    /\ UNCHANGED <<poolVars, effVars, call, builds, updates>>

\* p.upgrade()
Upgrade ==
    /\ project # NoProject
    /\ LET r == upgrade(project)
       IN  /\ project' = r.project
           /\ pcall' = [op |-> "upgrade", ret |-> r.ret, before |-> project]
    /\ UNCHANGED <<poolVars, effVars, call, builds, updates>>

\* p.downgrade()
Downgrade ==
    /\ project # NoProject
    /\ LET r == downgrade(project)
       IN  /\ project' = r.project
           /\ pcall' = [op |-> "downgrade", ret |-> r.ret, before |-> project]
    /\ UNCHANGED <<poolVars, effVars, call, builds, updates>>

\* p.active_effects() and p.active_effects_with_outcomes(); ret is the pair
\* of the results, or a panic when the index is outside the upgrades
ReadEffects ==
    /\ project # NoProject
    /\ pcall' = [op |-> "effects",
                 ret |-> IF IndexInBounds(project)
                         THEN [panic |-> FALSE,
                               active |-> active_effects(project),
                               with_outcomes |-> active_effects_with_outcomes(project)]
                         ELSE [panic |-> TRUE, active |-> <<>>, with_outcomes |-> <<>>],
                 before |-> project]
    /\ UNCHANGED <<poolVars, effVars, call, builds, updates, project>>

ProjectNext ==
    NewProject \/ Build \/ SetPoints \/ Upgrade \/ Downgrade \/ ReadEffects


(***************************************************************************)
(* Outcomes of a project: roll_outcome, called by test_project_outcomes.   *)
(* An outcome is held as the list of its conditions; a condition compares  *)
(* the year of the state with a value.                                     *)
(***************************************************************************)
\* Condition::WorldVariable(WorldVariable::Year, Comparator::Equal, val)
YearEqual(val) == [var |-> "Year", cmp |-> "Equal", val |-> val]

\* the condition holds in a state of that year
Satisfied(cond, year) == cond.cmp = "Equal" /\ year = cond.val

\* all the conditions of an outcome hold: none is needed when it has none
AllSatisfied(conds, year) ==
    \A k \in DOMAIN conds : Satisfied(conds[k], year)

\* a roll that selects the last outcome whose conditions hold
RollOutcomeLast(outcomes, year) ==
    LET ok == {k \in DOMAIN outcomes : AllSatisfied(outcomes[k], year)}
    IN  IF ok = {} THEN None
        ELSE Some(CHOOSE k \in ok : \A j \in ok : j <= k)

\* Project::roll_outcome: the outcome selected, as the index of the first
\* outcome whose conditions hold (counted from 1 here, from 0 in the code)
RollOutcome(outcomes, year) ==
    LET ok == {k \in DOMAIN outcomes : AllSatisfied(outcomes[k], year)}
    IN  IF ok = {} THEN None
        ELSE Some(CHOOSE k \in ok : \A j \in ok : k <= j)

\* the conditions an outcome of the model may have: none, one, or two that
\* never hold together
ConditionLists ==
    {<<>>, <<YearEqual(10)>>, <<YearEqual(11)>>, <<YearEqual(10), YearEqual(11)>>}

\* the outcomes of a project: up to MaxOutcomes of them
OutcomeLists ==
    UNION {[1..n -> ConditionLists] : n \in 0..MaxOutcomes}

\* state.world.year: State::default(), and the years the conditions name
Years == {0, 10, 11}

\* p.roll_outcome(&state, &mut rng)
Roll_outcome ==
    /\ pcall.op = "none"
    /\ \E outcomes \in OutcomeLists, year \in Years :
          pcall' = [op |-> "roll_outcome", outcomes |-> outcomes, year |-> year,
                    ret |-> RollOutcome(outcomes, year)]
    /\ UNCHANGED <<poolVars, effVars, call, project, builds, updates>>


\* the base costs and cost modifiers of the projects whose cost is updated:
\* a fixed cost, and a dynamic one of each factor, with m = 0.5, 1.5, 2.5
BaseCosts ==
    {Fixed(3), Dynamic(2, "Time", ""), Dynamic(6, "Income", ""),
     Dynamic(10, "Output", "Fuel")}

\* cost_modifier: 1.0 on the fixed cost and on the income, 1.5 on the others
CostModifier(base_cost) == IF base_cost.factor \in {"", "Income"} THEN Q ELSE 6

\* ongoing: the projects whose cost follows the time or the income
Ongoing(base_cost) == base_cost.factor \in {"Time", "Income"}

\* the arguments of update_cost: year, income_level, demand, modifier
Demand(fuel) == [o \in Outputs |-> IF o = "Fuel" THEN fuel ELSE Q]
CostInputs ==
    {[year |-> 1980, income_level |-> 0, demand |-> Demand(0), modifier |-> Q],
     [year |-> 1983, income_level |-> 2, demand |-> Demand(6), modifier |-> Q],
     [year |-> 1983, income_level |-> 2, demand |-> Demand(6), modifier |-> 6]}

\* the NPCs of the state: three, the first an ally or not; none locked, or
\* the first, or the last, or all of them
NpcCollections ==
    {<< [locked |-> l[1], relation |-> r],
        [locked |-> l[2], relation |-> "Neutral"],
        [locked |-> l[3], relation |-> "Neutral"] >> :
        l \in {<<FALSE, FALSE, FALSE>>, <<TRUE, FALSE, FALSE>>,
               <<FALSE, FALSE, TRUE>>, <<TRUE, TRUE, TRUE>>},
        r \in {"Ally", "Neutral"}}

\* let mut p = Project { .. }, with a base cost, one upgrade, two opposers
\* and a supporter
NewCostedProject ==
    /\ project = NoProject
    /\ \E base_cost \in BaseCosts, status \in ProjectStatus :
          project' = [ProjectLiteral(3, 1, status, Ongoing(base_cost), None) EXCEPT
                         !.base_cost = base_cost,
                         !.cost_modifier = CostModifier(base_cost),
                         !.upgrades = <<[cost |-> 1, effects |-> <<>>]>>,
                         !.opposers = <<0, 1>>,
                         !.supporters = <<2>>]
    /\ pcall' = [op |-> "new", ret |-> FALSE, before |-> NoProject]
    /\ UNCHANGED <<poolVars, effVars, call, builds, updates>>

\* p.update_cost(year, income_level, &demand, modifier)
UpdateCost ==
    /\ project # NoProject
    /\ updates < MaxUpdates
    /\ \E in \in CostInputs :
          /\ project' = update_cost(project, in.year, in.income_level,
                                    in.demand, in.modifier)
          /\ pcall' = [op |-> "update_cost", ret |-> FALSE, before |-> project,
                       args |-> in]
    /\ updates' = updates + 1
    /\ UNCHANGED <<poolVars, effVars, call, builds>>

\* p.update_required_majority(&npcs)
UpdateRequiredMajority ==
    /\ project # NoProject
    /\ updates < MaxUpdates
    /\ \E npcs \in NpcCollections :
          /\ project' = update_required_majority(project, npcs)
          /\ pcall' = [op |-> "update_required_majority", ret |-> FALSE,
                       before |-> project, npcs |-> npcs]
    /\ updates' = updates + 1
    /\ UNCHANGED <<poolVars, effVars, call, builds>>

LifecycleNext ==
    \/ NewCostedProject
    \/ Build
    \/ SetPoints
    \/ UpdateCost
    \/ Upgrade
    \/ Downgrade
    \/ UpdateRequiredMajority


(***************************************************************************)
(* Effects on the outlook and on the ally, applied and taken back in any   *)
(* order                                                                   *)
(***************************************************************************)
\* the effects that move the outlook or the relationship of The Authoritarian
OutlookInputs ==
    {W("Outlook", 8), W("Outlook", -8), I("NPCRelationship", 0, 2),
     V("IncomeOutlookChange", "", -4), V("DemandOutlookChange", "Fuel", 1)}

\* Effect::apply of one of them on the current state
ApplyOutlook ==
    /\ Len(stack) < MaxDepth
    /\ applies < MaxApplies
    /\ applies' = applies + 1
    /\ \E e \in OutlookInputs :
          /\ state' = ApplyEffect(e, state, None)
          /\ stack' = Append(
                [i \in DOMAIN stack |->
                    [stack[i] EXCEPT !.pure = @ /\ Additive(e)]],
                [effect |-> e, rid |-> None, saved |-> state, pure |-> TRUE])
          /\ last' = [op |-> "apply", effect |-> e, rid |-> None,
                      saved |-> state, pure |-> TRUE]
    /\ UNCHANGED <<poolVars, call, projVars>>

\* Effect::unapply of any effect applied and not yet taken back, whether or
\* not it was the last one applied
UnapplyAny ==
    /\ \E i \in DOMAIN stack :
          LET entry == stack[i]
          IN  /\ state' = UnapplyEffect(entry.effect, state, entry.rid)
              /\ stack' = SubSeq(stack, 1, i - 1) \o SubSeq(stack, i + 1, Len(stack))
              /\ last' = [op |-> "unapply", effect |-> entry.effect,
                          rid |-> entry.rid, saved |-> entry.saved,
                          pure |-> entry.pure /\ i = Len(stack)]
    /\ UNCHANGED applies
    /\ UNCHANGED <<poolVars, call, projVars>>

OutlookNext == ApplyOutlook \/ UnapplyAny


(***************************************************************************)
(* A project built from its start to its completion, points and cost held  *)
(* constant                                                                *)
(***************************************************************************)
\* the costs and the points of the projects that are built
BuildCosts == 1..MaxYears
BuildPoints == {1, 2}

\* let mut p = Project { status: Status::Building, progress: 0., .. }
StartBuilding ==
    /\ project = NoProject
    /\ \E cost \in BuildCosts, ongoing \in BOOLEAN :
          project' = ProjectLiteral(cost, 0, "Building", ongoing, None)
    /\ pcall' = [op |-> "new", ret |-> FALSE, before |-> NoProject]
    /\ UNCHANGED <<poolVars, effVars, call, builds, updates>>

\* p.set_points(points), once, before the first build
AssignPoints ==
    /\ pcall.op = "new"
    /\ \E points \in BuildPoints :
          /\ project' = set_points(project, points)
          /\ pcall' = [op |-> "set_points", ret |-> FALSE, before |-> project]
    /\ UNCHANGED <<poolVars, effVars, call, builds, updates>>

\* p.build(), year after year
BuildOn ==
    /\ pcall.op \in {"set_points", "build"}
    /\ builds < MaxYears
    /\ LET r == build(project)
       IN  /\ project' = r.project
           /\ pcall' = [op |-> "build", ret |-> r.ret, before |-> project]
    /\ builds' = builds + 1
    /\ UNCHANGED <<poolVars, effVars, call, updates>>

CompletionNext == StartBuilding \/ AssignPoints \/ BuildOn


(***************************************************************************)
(* update_cost in any year                                                 *)
(***************************************************************************)
\* the arguments of update_cost, the years before 1980 included
EarlyCostInputs ==
    CostInputs
    \cup {[year |-> y, income_level |-> 2, demand |-> Demand(6), modifier |-> Q] :
            y \in {0, 1979}}

\* `year - 1980` on a usize, evaluated in the arm Factor::Time only
YearUnderflows(base_cost, year) ==
    base_cost.kind = "Dynamic" /\ base_cost.factor = "Time" /\ year < 1980

\* the cost stored when the difference wraps: the difference is next to
\* usize::MAX, and each `as usize` of the f32 products saturates there
WrappedCost(p, modifier) ==
    IF p.base_cost.m > 0 /\ p.cost_modifier >= Q /\ modifier >= Q THEN Inf ELSE 0

\* the outcomes of update_cost: the subtraction panics where overflow is
\* checked and wraps where it is not
UpdateCostOutcomes(p, in) ==
    IF YearUnderflows(p.base_cost, in.year)
    THEN {[panic |-> TRUE, wrapped |-> FALSE, project |-> p],
          [panic |-> FALSE, wrapped |-> TRUE,
           project |-> [p EXCEPT !.cost = WrappedCost(p, in.modifier)]]}
    ELSE {[panic |-> FALSE, wrapped |-> FALSE,
           project |-> update_cost(p, in.year, in.income_level, in.demand,
                                   in.modifier)]}

\* p.update_cost(year, income_level, &demand, modifier) in any year
UpdateCostAnyYear ==
    /\ project # NoProject
    /\ updates < MaxUpdates
    /\ \E in \in EarlyCostInputs :
       \E out \in UpdateCostOutcomes(project, in) :
          /\ project' = out.project
          /\ pcall' = [op |-> "update_cost", ret |-> FALSE, before |-> project,
                       args |-> in, panic |-> out.panic, wrapped |-> out.wrapped]
    /\ updates' = updates + 1
    /\ UNCHANGED <<poolVars, effVars, call, builds>>

CostNext == NewCostedProject \/ UpdateCostAnyYear

(***************************************************************************)
(* Specifications                                                          *)
(***************************************************************************)
\* an empty pool (EventPool::default), the State before any effect and no
\* project yet
Init ==
    /\ events = <<>>
    /\ happening = <<>>
    /\ rolls = 0
    /\ added = <<>>
    /\ fired = <<>>
    /\ underflow = FALSE
    /\ state = InitState
    /\ stack = <<>>
    /\ applies = 0
    /\ last = [op |-> "init", effect |-> V("GameOver", "", 0), rid |-> None,
               saved |-> InitState, pure |-> TRUE]
    /\ call = NoCall
    /\ project = NoProject
    /\ pcall = NoCall
    /\ builds = 0
    /\ updates = 0

\* any add_event and roll calls
SpecPool == Init /\ [][PoolNext]_vars

\* test_event_pool
SpecTest == Init /\ [][TestNext]_vars

\* the pool that fills the firing list
SpecCap == Init /\ [][CapNext]_vars

\* any effects applied and unapplied in nested order
SpecEffects == Init /\ [][EffNext]_vars

\* any effect scaled, any two effects fingerprinted
SpecFunctions == Init /\ [][FunctionNext]_vars

\* a project built, estimated, upgraded, downgraded and read
SpecProject == Init /\ [][ProjectNext]_vars


\* the outcome of a project rolled in some year
SpecOutcomes == Init /\ [][Roll_outcome]_vars


\* a project with a base cost under the six operations that change it
SpecLifecycle == Init /\ [][LifecycleNext]_vars


\* events that are locked or not, added, unlocked and rolled
SpecGated == Init /\ [][GatedNext]_vars


\* effects on the outlook, taken back in any order
SpecOutlook == Init /\ [][OutlookNext]_vars


\* one project built until it completes
SpecCompletion == Init /\ [][CompletionNext]_vars


\* a project and its update_cost in any year
SpecCost == Init /\ [][CostNext]_vars

(***************************************************************************)
(* Claims about the event pool                                             *)
(***************************************************************************)
\* the entry of event id in the pool, as a set (empty when it has left)
Entries(id) == {i \in DOMAIN events : events[i].ev.id = id}
InPool(id) == Entries(id) # {}
StatusIn(id) == events[CHOOSE i \in Entries(id) : TRUE].status
\* event id was in the pool when the last roll scanned it
Scanned(id) == InPool(id) /\ added[id + 1].at < rolls
\* the number of entries that fired before position i was scanned
FiredBefore(i) ==
    Cardinality({j \in 1..(i - 1) : events[j].ev.id \in Range(happening)})
QueuedAdds == {i \in DOMAIN added :
                 added[i].status.kind = "Queued" /\ added[i].status.n >= 1}
Due(i) == added[i].at + added[i].status.n

\* C1 as stated: an event added as Queued(n), n >= 1, is returned by the
\* n-th roll after its add_event and by no other roll, and it is out of the
\* pool as soon as that roll has returned.
C1_FiresOnNthRollAndLeavesAtOnce ==
    \A i \in QueuedAdds :
        /\ fired[i] \subseteq {Due(i)}
        /\ rolls >= Due(i) => fired[i] = {Due(i)} /\ ~InPool(i - 1)

\* C1 as amended: an event added as Queued(n), n >= 1, is returned by the
\* n-th roll after its add_event and by no other roll; when that roll returns
\* it is still in the pool, with status Queued(0), and the cleanup at the start
\* of the roll after removes it.
C1_FiresOnNthRollAndLeavesAtNextRoll ==
    \A i \in QueuedAdds :
        /\ fired[i] \subseteq {Due(i)}
        /\ rolls < Due(i) => InPool(i - 1) /\ StatusIn(i - 1) = Queued(Due(i) - rolls)
        /\ rolls = Due(i) =>
              fired[i] = {Due(i)} /\ InPool(i - 1) /\ StatusIn(i - 1) = Queued(0)
        /\ rolls > Due(i) => fired[i] = {Due(i)} /\ ~InPool(i - 1)

C1_Witness ==
    \E i \in QueuedAdds :
        /\ added[i].status.n = MaxQueue
        /\ rolls = Due(i) /\ fired[i] = {Due(i)} /\ StatusIn(i - 1) = Queued(0)

\* C2: a Random/Triggered event is in the firing list only if fewer than
\* MAX_EVENTS_PER_TURN events were in the list when it was scanned, and a
\* Queued event whose countdown reached zero is in the list whatever the
\* length of the list was.
C2_CapThrottlesOnlySpontaneous ==
    /\ \A k \in DOMAIN happening :
          (Scanned(happening[k]) /\ StatusIn(happening[k]) = Triggered)
              => k - 1 < MAX_EVENTS_PER_TURN
    /\ \A i \in DOMAIN events :
          (Scanned(events[i].ev.id) /\ events[i].status = Queued(0))
              => events[i].ev.id \in Range(happening)

C2_Witness ==
    \E k \in DOMAIN happening :
        /\ k > MAX_EVENTS_PER_TURN
        /\ Scanned(happening[k])
        /\ StatusIn(happening[k]) = Queued(0)

\* C3 as stated: an event whose probability is 0.0 is returned by no roll,
\* whatever the draws and the shuffles.
C3_ProbZeroNeverFires ==
    \A i \in DOMAIN added :
        (added[i].status = Random /\ added[i].ev.prob = ProbZero) => fired[i] = {}

\* C4: a roll that scans an event of status Random and probability 1.0 while
\* fewer than MAX_EVENTS_PER_TURN events are in the firing list returns it,
\* whatever the draw.
C4_ProbOneFiresUnderCap ==
    [][\A i \in DOMAIN events' :
          LET id == events'[i].ev.id
          IN  (/\ rolls' = rolls + 1
               /\ InPool(id) /\ StatusIn(id) = Random
               /\ events'[i].ev.prob = ProbOne
               /\ Cardinality({j \in 1..(i - 1) :
                      events'[j].ev.id \in Range(happening')})
                    < MAX_EVENTS_PER_TURN)
              => id \in Range(happening')]_poolVars

\* a Random event of probability 1.0 was scanned with a full firing list and
\* did not fire, and another one was scanned under the cap and fired
C4_Witness ==
    /\ \E i \in DOMAIN events :
          /\ Scanned(events[i].ev.id) /\ events[i].status = Random
          /\ ~events[i].ev.repeats
          /\ FiredBefore(i) >= MAX_EVENTS_PER_TURN
    /\ \E i \in DOMAIN events :
          /\ Scanned(events[i].ev.id) /\ events[i].status = Triggered
          /\ FiredBefore(i) = MAX_EVENTS_PER_TURN - 1

\* C5: an event with repeats = false that was added as Random is returned by
\* at most one roll; an event with repeats = true never keeps the status
\* Triggered over a roll in which it does not fire (the roll resets it to
\* Random first), so it is evaluated again.
C5_OneOffFiresOnceRepeatingResets ==
    /\ \A i \in DOMAIN added :
          (added[i].status = Random /\ ~added[i].ev.repeats)
              => Cardinality(fired[i]) <= 1
    /\ \A i \in DOMAIN events :
          (/\ events[i].ev.repeats
           /\ Scanned(events[i].ev.id)
           /\ events[i].status = Triggered)
              => events[i].ev.id \in Range(happening)

\* a repeating event was returned by two rolls, and a one-off event that
\* fired in the first roll has left the pool
C5_Witness ==
    /\ \E i \in DOMAIN added :
          added[i].ev.repeats /\ added[i].status = Random /\ Cardinality(fired[i]) = 2
    /\ \E i \in DOMAIN added :
          /\ ~added[i].ev.repeats /\ added[i].status = Random
          /\ fired[i] = {1} /\ rolls = 2 /\ ~InPool(i - 1)

\* C6 as stated: an event added as Queued(0) is returned by the next roll.
C6_QueuedZeroFiresOnNextRoll ==
    \A i \in DOMAIN added :
        (added[i].status = Queued(0) /\ rolls > added[i].at)
            => (added[i].at + 1) \in fired[i]

\* C7: in test_event_pool the first roll returns e0, e1 and e4, and the
\* second returns e1 and e3 and neither e0 nor e4, whatever the shuffle and
\* the draws.
C7_TestEventPool ==
    /\ (Len(added) = Len(TestPool) /\ rolls = 1)
          => {0, 1, 4} \subseteq Range(happening)
    /\ (Len(added) = Len(TestPool) /\ rolls = 2)
          => /\ {1, 3} \subseteq Range(happening)
             /\ Range(happening) \cap {0, 4} = {}

C7_Witness ==
    /\ Len(added) = Len(TestPool) /\ rolls = 2
    /\ 3 \in Range(happening)
    /\ ~InPool(0) /\ ~InPool(4)

(***************************************************************************)
(* Claims about the effect engine                                          *)
(***************************************************************************)
\* C9 as stated: unapply after apply of an additive effect, with the same
\* region id, restores the state the apply started from, also when other
\* additive effects were applied and unapplied in between.
C9_AdditiveRoundTripRestores ==
    (last.op = "unapply" /\ Additive(last.effect) /\ last.pure)
        => state = last.saved

\* C11 as stated: apply of RegionHabitability, Migration, RegionLeave or
\* AddRegionFlag without a region id leaves the state unchanged.
C11_RegionScopedWithoutRegionIsNoOp ==
    [][(/\ last'.op = "apply" /\ applies' = applies + 1
        /\ last'.rid = None
        /\ last'.effect.kind \in {"RegionHabitability", "Migration", "RegionLeave",
                                   "AddRegionFlag"})
          => state' = state]_vars

\* C11 as amended: apply of Migration, RegionLeave or AddRegionFlag without a
\* region id leaves the state unchanged; apply of RegionHabitability does not
\* read the region id: with one or without, it adds the change to the base
\* habitability of every region of its latitude and leaves the rest alone.
C11_RegionIdNeededExceptForHabitability ==
    [][(last'.op = "apply" /\ applies' = applies + 1) =>
          /\ (/\ last'.rid = None
              /\ last'.effect.kind \in {"Migration", "RegionLeave", "AddRegionFlag"})
                => state' = state
          /\ last'.effect.kind = "RegionHabitability" =>
                state' = [state EXCEPT !.regions =
                            [i \in DOMAIN @ |->
                               IF state.regions[i].latitude = last'.effect.sub
                               THEN [state.regions[i] EXCEPT !.base_habitability =
                                        state.regions[i].base_habitability
                                            + last'.effect.val]
                               ELSE state.regions[i]]]]_vars

\* RegionHabitability was applied without a region id and changed a region,
\* and RegionLeave was then applied without a region id and changed nothing
C11_Witness ==
    /\ Len(stack) = 2
    /\ stack[1].effect.kind = "RegionHabitability" /\ stack[1].rid = None
    /\ stack[2].saved.regions[1].base_habitability
          = stack[1].saved.regions[1].base_habitability + 1
    /\ last.op = "apply" /\ last.effect.kind = "RegionLeave" /\ last.rid = None
    /\ state = last.saved

\* C10: unapply of a one-directional variant leaves the whole state as it
\* is, with a region id and without one.
C10_OneDirectionalUnapplyIsNoOp ==
    [][(last'.op = "unapply" /\ last'.effect.kind \in OneDirectional)
          => state' = state]_vars

\* a one-directional effect changed the state and its unapply, here with a
\* region id, left the change in place
C10_Witness ==
    /\ last.op = "unapply"
    /\ last.effect.kind \in {"RegionLeave", "Migration", "AddRegionFlag"}
    /\ last.rid # None
    /\ stack = <<>>
    /\ state # last.saved

(***************************************************************************)
(* Claims about the functions of an Effect                                 *)
(***************************************************************************)
\* C12 as stated: effect * k has the variant and the target of the effect;
\* its magnitude is the effect's times k when the variant carries a
\* magnitude, and it is the effect itself when the variant carries none.
C12_ScalingKeepsVariantAndMultiplies ==
    call.op = "mul" =>
        /\ call.result.kind = call.effect.kind
        /\ call.result.sub = call.effect.sub
        /\ call.result.id = call.effect.id
        /\ call.effect.kind \in MagnitudeKinds =>
              call.result.val = call.effect.val * call.rhs
        /\ call.effect.kind \notin MagnitudeKinds => call.result = call.effect

\* the enumeration member an effect carries, the Flag of AddFlag included
EnumTarget(e) == IF e.kind \in SubkindKinds \cup {"AddFlag"} THEN e.sub ELSE ""

\* C13 as stated: two effects have equal fingerprints exactly when they have
\* the same variant and the same enumeration member as target.
C13_FingerprintIsVariantAndEnumTarget ==
    call.op = "fingerprint" =>
        ((call.fa = call.fb)
            <=> (call.a.kind = call.b.kind /\ EnumTarget(call.a) = EnumTarget(call.b)))

\* C13 as amended: the fingerprint is the variant tag, ':' and the name of
\* the enumeration member for the sixteen variants fingerprint matches on
\* (empty for every other variant, AddFlag with its Flag included); two
\* effects have equal fingerprints exactly when they have the same variant
\* and the same such sub-key, whatever their magnitudes and ids.
C13_FingerprintIsVariantAndSubkind ==
    call.op = "fingerprint" =>
        /\ (call.fa = call.fb)
              <=> (/\ call.a.kind = call.b.kind
                   /\ (call.a.kind \in SubkindKinds => call.a.sub = call.b.sub))
        /\ (call.a.kind = "Resource" /\ call.b.kind = "Resource"
              /\ call.a.sub # call.b.sub) => call.fa # call.fb
        /\ call.a.kind = "AddFlag" => call.fa = "AddFlag:"
        /\ call.a = W("Temperature", Big) => call.fa = "WorldVariable:Temperature"

\* two effects of one variant and one target and different magnitudes were
\* given the same fingerprint
C13_Witness ==
    /\ call.op = "fingerprint"
    /\ call.a = W("Temperature", 1) /\ call.b = W("Temperature", Big)
    /\ call.fa = call.fb

(***************************************************************************)
(* Claims about projects                                                   *)
(***************************************************************************)
\* C14: build() on a project whose status is not Building returns false and
\* changes nothing of the project: not the progress, not the status.
C14_BuildOffBuildingIsNoOp ==
    (pcall.op = "build" /\ pcall.before.status # "Building")
        => (~pcall.ret /\ project = pcall.before)

\* build() was called on an Active project that had points and a cost
C14_Witness ==
    /\ pcall.op = "build"
    /\ pcall.before.status = "Active"
    /\ pcall.before.cost = 3
    /\ ~pcall.ret
    /\ project.progress = 0

\* C15: build() on a Building project adds 1 / years_for_points(points,
\* cost) to the progress; when the progress is then 1 or more the status
\* becomes Active for an ongoing project and Finished otherwise and the call
\* returns true, else the status stays Building and the call returns false.
C15_BuildAdvancesAndCompletes ==
    (pcall.op = "build" /\ pcall.before.status = "Building")
        => LET b == pcall.before
               progress == FAdd(b.progress, Recip(years_for_points(b.points, b.cost)))
           IN  /\ project.progress = progress
               /\ progress >= One
                    => /\ pcall.ret
                       /\ project.status = IF b.ongoing THEN "Active" ELSE "Finished"
               /\ progress < One
                    => /\ ~pcall.ret
                       /\ project.status = "Building"
               /\ project = [b EXCEPT !.progress = project.progress,
                                      !.status = project.status]

\* the third build of a project of cost 3 with one point brings the progress
\* from two thirds to 1 and finishes the project
C15_Witness ==
    /\ pcall.op = "build"
    /\ pcall.before.status = "Building"
    /\ pcall.before.cost = 3
    /\ pcall.before.points = 1
    /\ pcall.before.progress > 0
    /\ pcall.before.progress < One
    /\ project.progress = One
    /\ project.status = "Finished"
    /\ pcall.ret

\* C16 as stated: a sequence of build() calls on a Building project ends for
\* every points and cost, points = 0 included. The calls end only when the
\* progress reaches 1, so every build of a Building project has to raise the
\* progress: a build that leaves it where it was is repeated for ever.
C16_EveryBuildAdvances ==
    (pcall.op = "build" /\ pcall.before.status = "Building")
        => project.progress > pcall.before.progress

\* C17: years_for_points is at least 1 and, for a fixed cost, does not grow
\* with the points; set_points with more points never gives a larger
\* estimate than the project had, or than fewer points would have given.
C17_EstimateFlooredAndMonotone ==
    pcall.op = "set_points"
        => LET b == pcall.before
           IN  /\ years_for_points(project.points, b.cost) >= 1
               /\ project.estimate >= 1
               /\ \A q \in Points :
                     q <= project.points
                        => /\ years_for_points(q, b.cost)
                                >= years_for_points(project.points, b.cost)
                           /\ set_points(b, q).estimate >= project.estimate
               /\ (b.estimate = set_points(b, b.points).estimate
                        /\ b.points <= project.points)
                     => project.estimate <= b.estimate

\* the estimate of a project of cost 10 was 10 with one point and is 4 with
\* ten points
C17_Witness ==
    /\ pcall.op = "set_points"
    /\ pcall.before.cost = 10
    /\ pcall.before.points = 1
    /\ pcall.before.estimate = 10
    /\ project.points = 10
    /\ project.estimate = 4

\* C18: whatever upgrade() and downgrade() calls were made, the level is
\* within [0, upgrades.len()]; upgrade() at the last level and downgrade()
\* at level 0 return false and leave the level, every other call returns
\* true and moves the level by exactly one.
C18_LevelStaysWithinUpgrades ==
    /\ project # NoProject
          => (project.level >= 0 /\ project.level <= Len(project.upgrades))
    /\ pcall.op = "upgrade"
          => IF pcall.before.level = Len(pcall.before.upgrades)
             THEN ~pcall.ret /\ project.level = pcall.before.level
             ELSE pcall.ret /\ project.level = pcall.before.level + 1
    /\ pcall.op = "downgrade"
          => IF pcall.before.level = 0
             THEN ~pcall.ret /\ project.level = pcall.before.level
             ELSE pcall.ret /\ project.level = pcall.before.level - 1

\* upgrade() was refused at the last level, which two upgrades had reached
C18_Witness ==
    /\ pcall.op = "upgrade"
    /\ ~pcall.ret
    /\ pcall.before.level = 2
    /\ project.level = 2

\* C19: active_effects() is the base effects of the project at level 0 and
\* the effects of upgrades[level - 1] alone at any other level (an upgrade
\* replaces the base effects), and after any upgrade() and downgrade() calls
\* its index is inside the upgrades.
C19_ActiveEffectsOfLevel ==
    pcall.op = "effects"
        => LET b == pcall.before
           IN  /\ ~pcall.ret.panic
               /\ b.level = 0 => pcall.ret.active = b.effects
               /\ b.level > 0
                    => /\ b.level - 1 < Len(b.upgrades)
                       /\ pcall.ret.active = b.upgrades[(b.level - 1) + 1].effects

\* at level 2 the effects are the two of the second upgrade, the base effect
\* not among them
C19_Witness ==
    /\ pcall.op = "effects"
    /\ pcall.before.level = 2
    /\ Len(pcall.ret.active) = 2
    /\ pcall.ret.active[1] = W("Temperature", 3)
    /\ \A k \in DOMAIN pcall.ret.active :
          pcall.ret.active[k] # pcall.before.effects[1]

\* the effects of the active outcome of a project, none without one
OutcomeEffects(p) ==
    IF p.active_outcome = None THEN <<>>
    ELSE p.outcomes[p.active_outcome[1] + 1].effects

\* C20 as stated: active_effects_with_outcomes() is the active effects,
\* followed by the effects of the active outcome only when the project is
\* online; for a project that is not online it is the active effects alone.
C20_ActiveEffectsAlwaysOutcomesOnline ==
    pcall.op = "effects"
        => pcall.ret.with_outcomes
              = pcall.ret.active
                  \o (IF pcall.before.status \in {"Active", "Finished"}
                      THEN OutcomeEffects(pcall.before) ELSE <<>>)

\* C20 as the code has it: for an online project (Active or Finished) the
\* result is the active effects followed by the effects of the active
\* outcome; for any other project it is empty, active effects included.
C20_EffectsAndOutcomesOnlineOnly ==
    pcall.op = "effects"
        => pcall.ret.with_outcomes
              = IF pcall.before.status \in {"Active", "Finished"}
                THEN pcall.ret.active \o OutcomeEffects(pcall.before)
                ELSE <<>>

\* a Building project with an active outcome and active effects, and
\* nothing in the result
C20_Witness ==
    /\ pcall.op = "effects"
    /\ pcall.before.status = "Building"
    /\ pcall.before.active_outcome = Some(1)
    /\ pcall.ret.active # <<>>
    /\ pcall.ret.with_outcomes = <<>>

(***************************************************************************)
(* Claims about the outcomes of a project                                  *)
(***************************************************************************)
\* C21: roll_outcome returns the first outcome, in the order of
\* declaration, whose conditions all hold in the state, with its index, and
\* none when no outcome has all its conditions hold; with the outcomes
\* [gated on year == 10, unconditioned] it returns index 1 while the year is
\* not 10 and index 0 once it is.
C21_FirstSatisfiedOutcomeWins ==
    pcall.op = "roll_outcome"
        => LET out == pcall.outcomes
               holds(k) == \A c \in DOMAIN out[k] : pcall.year = out[k][c].val
           IN  /\ pcall.ret = None <=> (\A k \in DOMAIN out : ~holds(k))
               /\ pcall.ret # None
                    => /\ pcall.ret[1] \in DOMAIN out
                       /\ holds(pcall.ret[1])
                       /\ \A j \in 1..(pcall.ret[1] - 1) : ~holds(j)
               /\ out = <<<<YearEqual(10)>>, <<>>>>
                    => pcall.ret = IF pcall.year = 10 THEN Some(1) ELSE Some(2)

\* the outcomes of the test rolled in year 10: both hold and the first, the
\* gated one, is returned
C21_Witness ==
    /\ pcall.op = "roll_outcome"
    /\ pcall.outcomes = <<<<YearEqual(10)>>, <<>>>>
    /\ pcall.year = 10
    /\ pcall.ret = Some(1)

(***************************************************************************)
(* Claims about the cost, the majority and the status of a project         *)
(***************************************************************************)
\* the NPCs of a list of ids that are not locked
Unlocked(ids, npcs) == {k \in DOMAIN ids : ~npcs[ids[k] + 1].locked}

\* C22 as stated: update_required_majority sets required_majority to 0.5
\* exactly when the opposers that are not locked are strictly more than the
\* supporters that are not locked, and to 0 otherwise.
C22_MajorityWhenUnlockedOpposersOutnumber ==
    pcall.op = "update_required_majority"
        => LET b == pcall.before
           IN  project.required_majority =
                   IF Cardinality(Unlocked(b.opposers, pcall.npcs))
                        > Cardinality(Unlocked(b.supporters, pcall.npcs))
                   THEN Q \div 2 ELSE 0

\* C22 as the code has it: an opposer counts when it is not locked and is
\* not an ally, a supporter when it is not locked; required_majority is 0.5
\* when the opposers counted are strictly more than the supporters counted
\* and 0 otherwise, and nothing else of the project changes.
C22_MajorityWhenOpposingNonAlliesOutnumber ==
    pcall.op = "update_required_majority"
        => LET b == pcall.before
               opposing == {k \in Unlocked(b.opposers, pcall.npcs) :
                               pcall.npcs[b.opposers[k] + 1].relation # "Ally"}
               supporting == Unlocked(b.supporters, pcall.npcs)
           IN  /\ project.required_majority \in {0, Q \div 2}
               /\ project.required_majority = Q \div 2
                    <=> Cardinality(opposing) > Cardinality(supporting)
               /\ project = [b EXCEPT !.required_majority = project.required_majority]

\* two opposers and one supporter, none locked, the first opposer an ally:
\* one opposer counts against one supporter and no majority is required
C22_Witness ==
    /\ pcall.op = "update_required_majority"
    /\ \A k \in DOMAIN pcall.npcs : ~pcall.npcs[k].locked
    /\ pcall.npcs[1].relation = "Ally"
    /\ pcall.before.opposers = <<0, 1>>
    /\ pcall.before.supporters = <<2>>
    /\ project.required_majority = 0

\* the integer nearest to n / d for n >= 0 and d > 0, the upper one of two
\* that are equally near
Nearest(n, d) ==
    CHOOSE k \in 0..(n + 1) : 2 * k * d - d <= 2 * n /\ 2 * n < 2 * k * d + d

\* C23: update_cost sets cost to round(b * cost_modifier * modifier), where
\* b is the integer of Cost::Fixed and, for Cost::Dynamic(m, factor),
\* round(m * (year - 1980)) for Time, round(m * (1 + income_level)) for
\* Income and round(m * demand[output]) for Output; no other field changes.
\* Checked for years from 1980 on and for values that are not negative,
\* all of them in quarters (Q to the unit).
C23_CostFromBaseCostAndModifiers ==
    pcall.op = "update_cost"
        => LET p == pcall.before
               a == pcall.args
               bc == p.base_cost
               b == CASE bc.kind = "Fixed" -> bc.c
                      [] bc.kind = "Dynamic" /\ bc.factor = "Time" ->
                            Nearest(bc.m * (a.year - 1980), Q)
                      [] bc.kind = "Dynamic" /\ bc.factor = "Income" ->
                            Nearest(bc.m * (Q + a.income_level), Q * Q)
                      [] bc.kind = "Dynamic" /\ bc.factor = "Output" ->
                            Nearest(bc.m * a.demand[bc.output], Q * Q)
           IN  /\ project.cost = Nearest(b * p.cost_modifier * a.modifier, Q * Q)
               /\ project = [p EXCEPT !.cost = project.cost]
               /\ project.progress = p.progress /\ project.points = p.points
               /\ project.estimate = p.estimate /\ project.status = p.status
               /\ project.level = p.level

\* a project of cost 0.5 a year since 1980 and cost_modifier 1.5, updated
\* in 1983 with modifier 1.5 after a build: 1.5 rounds to 2, 4.5 to 5
C23_Witness ==
    /\ pcall.op = "update_cost"
    /\ pcall.before.base_cost = Dynamic(2, "Time", "")
    /\ pcall.before.cost_modifier = 6
    /\ pcall.before.progress > 0
    /\ pcall.args.year = 1983
    /\ pcall.args.modifier = 6
    /\ pcall.before.cost = 3
    /\ project.cost = 5

(***************************************************************************)
(* Claims about the game over check and the reversible effects             *)
(***************************************************************************)
OutlookChanging(e) ==
    \/ e.kind = "WorldVariable" /\ e.sub = "Outlook"
    \/ e.kind \in {"DemandOutlookChange", "IncomeOutlookChange"}

\* C24: after the apply of an effect that changes the outlook (WorldVariable
\* Outlook, DemandOutlookChange, IncomeOutlookChange) game_over is set if
\* the outlook is then below 0 and The Authoritarian is not an ally; with
\* The Authoritarian an ally the apply leaves game_over as it was.
C24_GameOverUnlessAuthoritarianAlly ==
    (last.op = "apply" /\ OutlookChanging(last.effect))
        => /\ (OutlookNegative(state) /\ ~IsAlly(state, "The Authoritarian"))
                => state.game_over
           /\ IsAlly(state, "The Authoritarian")
                => state.game_over = last.saved.game_over

\* The Authoritarian was made an ally, then the outlook was driven below 0
\* and the game is not over
C24_Witness ==
    /\ last.op = "apply"
    /\ OutlookChanging(last.effect)
    /\ IsAlly(state, "The Authoritarian")
    /\ OutlookNegative(state)
    /\ ~OutlookNegative(last.saved)
    /\ ~state.game_over

(***************************************************************************)
(* Claim about locked events                                               *)
(***************************************************************************)
\* C25 as stated: an event whose locked flag is set is never returned by
\* roll: every event of the pool that the last roll returned has its flag
\* cleared, by an AddEvent effect applied before that roll if it was added
\* locked.
C25_LockedEventNeverFires ==
    [][rolls' = rolls + 1
         => \A i \in DOMAIN events' :
               events'[i].ev.id \in Range(happening') => ~events'[i].ev.locked]_vars

(***************************************************************************)
(* Claims about the status and the progress of a project                   *)
(***************************************************************************)
\* C26: build, set_points, update_cost, upgrade, downgrade and
\* update_required_majority change the status only in build, and only from
\* Building to Active or to Finished: none of them sets the status to
\* Halted, Stalled, Inactive or Building, and none leaves Active or Finished.
C26_StatusMovesOnlyByBuild ==
    pcall.op \in {"build", "set_points", "update_cost", "upgrade", "downgrade",
                  "update_required_majority"}
        => /\ project.status # pcall.before.status
                => /\ pcall.op = "build"
                   /\ pcall.before.status = "Building"
                   /\ project.status \in {"Active", "Finished"}
           /\ project.status \in {"Halted", "Stalled", "Inactive", "Building"}
                => project.status = pcall.before.status
           /\ pcall.before.status \in {"Active", "Finished"}
                => project.status = pcall.before.status

\* a build made the project Active after its cost had been updated
C26_Witness ==
    /\ pcall.op = "build"
    /\ updates > 0
    /\ pcall.before.status = "Building"
    /\ pcall.before.cost # 3
    /\ project.status = "Active"

\* C27 as stated: the progress of a project that starts at 0 stays within
\* [0, 1] under build, set_points and update_cost.
C27_ProgressWithinUnit ==
    project # NoProject => (project.progress >= 0 /\ project.progress <= One)

(***************************************************************************)
(* Claims about the round trip of the lock, flag and outlook effects       *)
(***************************************************************************)
\* C28 as stated: apply and then unapply of LocksProject, UnlocksProject,
\* UnlocksProcess or UnlocksNPC gives the target the locked flag it had
\* before the apply, whatever that flag was.
C28_LockRoundTripRestores ==
    (last.op = "unapply" /\ last.pure)
        => LET id == last.effect.id + 1
           IN  /\ last.effect.kind \in {"LocksProject", "UnlocksProject"}
                    => state.projects[id].locked = last.saved.projects[id].locked
               /\ last.effect.kind = "UnlocksProcess"
                    => state.processes[id].locked = last.saved.processes[id].locked
               /\ last.effect.kind = "UnlocksNPC"
                    => state.npcs[id].locked = last.saved.npcs[id].locked

\* C29 as stated: apply and then unapply of AddFlag(f) gives back the list
\* of flags of before the apply, the same flags in the same order, also
\* when f was in the list already.
C29_AddFlagRoundTripRestores ==
    (last.op = "unapply" /\ last.pure /\ last.effect.kind = "AddFlag")
        => state.flags = last.saved.flags

\* C30 as stated: apply of an effect that changes the outlook, answered at
\* once by its unapply, gives back the whole state of before the apply,
\* game_over included, also when the apply drove the outlook below 0.
C30_OutlookRoundTripRestores ==
    (last.op = "unapply" /\ applies = 1 /\ OutlookChanging(last.effect))
        => state = last.saved

(***************************************************************************)
(* Claims about the end of the game                                        *)
(***************************************************************************)
\* C31 as stated: in every state reached by apply and unapply calls from a
\* state where it holds, an outlook below 0 with The Authoritarian not an
\* ally means that game_over is set.
C31_NegativeOutlookMeansGameOver ==
    (OutlookNegative(state) /\ ~IsAlly(state, "The Authoritarian"))
        => state.game_over

(***************************************************************************)
(* Claims about the accumulation of percentage and amount effects          *)
(***************************************************************************)
\* the variants whose apply adds its change to a field: the arms of apply
\* for percentages and amounts, Feedstock (a product) left out
Accumulating(e) ==
    e.kind \in AdditiveKinds
             \cup {"WorldVariable", "DemandOutlookChange", "IncomeOutlookChange"}

\* the effect of twice the magnitude
Doubled(e) == [e EXCEPT !.val = 2 * @]

\* two accumulating effects were applied one after the other and neither
\* has been taken back
TwoApplied ==
    /\ last.op = "apply"
    /\ Len(stack) = 2
    /\ stack[2].saved = ApplyEffect(stack[1].effect, stack[1].saved, stack[1].rid)
    /\ Accumulating(stack[1].effect)
    /\ Accumulating(stack[2].effect)

\* the state the two effects give when applied in the other order
OtherOrder ==
    ApplyEffect(stack[1].effect,
                ApplyEffect(stack[2].effect, stack[1].saved, stack[2].rid),
                stack[1].rid)

EndsGame(s) == OutlookNegative(s) /\ ~IsAlly(s, "The Authoritarian")

\* a magnitude whose sums with the fields of the state are exact in an f32:
\* from 2^25 on a sum is rounded to a multiple of 4 and the order of the
\* additions shows
Exact(e) == Abs(e.val) < Big

C33_FullListStopsSpontaneousButResets ==
    \A i \in DOMAIN events :
        (/\ Scanned(events[i].ev.id)
         /\ events[i].status.kind # "Queued"
         /\ FiredBefore(i) >= MAX_EVENTS_PER_TURN)
            => /\ events[i].ev.id \notin Range(happening)
               /\ events[i].status # Triggered
               /\ events[i].ev.repeats => events[i].status = Random

\* the repeating event fired in the first roll, so that it was Triggered;
\* in the second roll it was scanned after three spontaneous and two queued
\* firings, it did not fire and it is Random again
C33_Witness ==
    \E i \in DOMAIN events :
        /\ rolls = 2
        /\ events[i].ev.repeats
        /\ events[i].ev.prob = ProbOne
        /\ fired[events[i].ev.id + 1] = {1}
        /\ FiredBefore(i) >= MAX_EVENTS_PER_TURN
        /\ \E j \in 1..(i - 1) : events[j].status = Queued(0)
        /\ events[i].status = Random

\* the ids of the events of a pool
Ids(evs) == {evs[i].ev.id : i \in DOMAIN evs}

\* C34 as stated: a roll removes exactly the events whose status is
\* Queued(0) or Triggered with repeats = false; it adds none, so the pool
\* does not grow; a repeating event that is Random or Triggered is not
\* removed, and a non-repeating event that has not fired stays in the pool.
C34_CleanupRemovesOnlyFiredEvents ==
    [][rolls' = rolls + 1
         => /\ Ids(events') = {events[i].ev.id : i \in {j \in DOMAIN events :
                                  ~Expired(events[j])}}
            /\ Len(events') <= Len(events)
            /\ \A i \in DOMAIN events :
                  /\ (events[i].ev.repeats /\ events[i].status \in {Random, Triggered})
                        => events[i].ev.id \in Ids(events')
                  /\ (~events[i].ev.repeats /\ fired[events[i].ev.id + 1] = {})
                        => events[i].ev.id \in Ids(events')]_vars

\* C35: when roll returns, an event of the pool is in the returned list if
\* and only if its status is Triggered or Queued(0), and no event is in the
\* returned list twice.
C35_ReturnedIffTriggeredOrQueuedZero ==
    [][rolls' = rolls + 1
         => /\ \A i \in DOMAIN events' :
                  events'[i].ev.id \in Range(happening')
                      <=> events'[i].status \in {Triggered, Queued(0)}
            /\ \A j, k \in DOMAIN happening' :
                  happening'[j] = happening'[k] => j = k]_vars

\* the second roll returned an event whose countdown reached zero and left
\* out the other event of the pool, a repeating one that the first roll had
\* returned
C35_Witness ==
    /\ rolls = 2
    /\ \E i, k \in DOMAIN events :
          /\ Scanned(events[i].ev.id) /\ events[i].status = Queued(0)
          /\ Scanned(events[k].ev.id) /\ events[k].status = Random
          /\ fired[events[k].ev.id + 1] = {1}
          /\ happening = <<events[i].ev.id>>

\* C36: the decrement of a countdown in roll never underflows: in every
\* pool reached through add_event and roll, the scan decrements no
\* countdown that is 0, an event added as Queued(0) included.
C36_CountdownNeverUnderflows ==
    /\ ~underflow
    /\ \A i \in DOMAIN events :
          events[i].status.kind = "Queued" => events[i].status.n <= MaxQueue

\* an event was added as Queued(0) and a roll has run over the pool since
C36_Witness ==
    /\ ~underflow
    /\ \E i \in DOMAIN added :
          added[i].status = Queued(0) /\ added[i].at < rolls

(***************************************************************************)
(* Claim about scaling and the fingerprint                                 *)
(***************************************************************************)
\* C37 as stated: scaling keeps the identity of an effect: the fingerprint
\* of e * k is the fingerprint of e for every effect e and factor k, and
\* e * 1 is e.
C37_ScalingKeepsFingerprint ==
    call.op = "mul" =>
        /\ Fingerprint(call.result) = Fingerprint(call.effect)
        /\ call.rhs = 1 => call.result = call.effect

(***************************************************************************)
(* Claim about the game_over flag                                          *)
(***************************************************************************)
\* C38: game_over is absorbing: once it is true, no apply and no unapply of
\* any effect sets it back to false.
C38_GameOverIsAbsorbing ==
    [][state.game_over => state'.game_over]_vars

\* the effect that drove the outlook below 0 was taken back: the outlook is
\* not below 0 any more and the game is still over
C38_Witness ==
    /\ last.op = "unapply"
    /\ last.effect = W("Outlook", -8)
    /\ ~last.saved.game_over
    /\ ~OutlookNegative(state)
    /\ state.game_over

(***************************************************************************)
(* Claim about the number of builds of a project                           *)
(***************************************************************************)
\* C39 as stated: with points >= 1 and the cost held constant, a Building
\* project that starts at progress 0 completes on the k-th build, k being
\* years_for_points(points, cost), the estimate that set_points stored: the
\* builds before the k-th return false and the k-th returns true.
C39_CompletesOnEstimatedBuild ==
    (pcall.op = "build" /\ builds <= project.estimate)
        => /\ project.estimate = years_for_points(project.points, project.cost)
           /\ pcall.ret <=> builds = project.estimate

(***************************************************************************)
(* Claim about update_cost in the years before 1980                        *)
(***************************************************************************)
\* C40 as stated: update_cost is total: in every year, a year before 1980
\* with a dynamic cost on the time included, it completes and stores a cost,
\* and the difference year - 1980 does not underflow.
C40_UpdateCostIsTotal ==
    pcall.op = "update_cost" => (~pcall.panic /\ ~pcall.wrapped)

====
